---- MODULE Spec2Model ----
(***************************************************************************)
(* InvPanel PRO: recommendation generation, life-cycle / AI governance and *)
(* the AI evaluation adapter, modelled from src/core/reco_engine.py,       *)
(* src/core/views.py, src/core/ai_engine.py and src/core/models.py.        *)
(*                                                                         *)
(* Decimal quantities and prices (6 decimal places) are integers counted   *)
(* in units of 0.000001.  Weights are compared by cross-multiplication,    *)
(* which agrees with the Decimal quotient for every value in the bounds.   *)
(***************************************************************************)
EXTENDS Integers, Sequences, FiniteSets, TLC

VARIABLES
    cfg,        \* django settings read by the views / the adapter
    portfolio,  \* the user's default Portfolio row
    assets,     \* Asset rows: symbol -> currency
    txs,        \* Transaction rows of the portfolio, in id order
    prices,     \* AssetPrice rows
    today,      \* timezone.localdate(), as a day number
    recs,       \* Recommendation rows, in id order (recs[i] has id i)
    audit,      \* AuditEvent rows, in id order
    last,       \* outcome of the last completed request
    served,     \* number of requests served so far
    req,        \* per-request position of the interleaved generate requests
    ev,         \* last call of evaluate_recommendation: inputs and outcome
    faulty,     \* codes whose INSERT into Recommendation the database rejects
    session,    \* the browser's session: "anon" or "auth"
    sim,        \* the user's Simulation row
    positions,  \* SimPosition rows of the simulation: symbol -> row
    trades,     \* SimTrade rows of the simulation, in id order
    treq        \* per-request position of the interleaved trade requests

vars == <<cfg, portfolio, assets, txs, prices, today, recs, audit, last, served, req, ev,
          faulty, session, sim, positions, trades, treq>>

(***************************************************************************)
(* Bounds of the model                                                     *)
(***************************************************************************)
MaxRequests == 4      \* requests served in SpecDedup
MaxAudit == 1         \* rows AuditEvent accepts before its inserts fail
MaxTrades == 3        \* SimTrade rows a simulation may hold
NumRequests == 2      \* generate requests in flight in SpecConc
NumTrades == 2        \* trade requests in flight in SpecTrade
MaxDay == 367         \* largest current_day a simulation reaches in SpecAdvance
MaxRuns == 1          \* generate requests served in SpecRules and SpecFrag
MaxSteps == 3         \* requests served in SpecHist
MaxCalls == 2         \* calls of price_for recorded in SpecPrice
MaxTxs == 3           \* transactions of the portfolio in SpecFold

(***************************************************************************)
(* Program constants                                                       *)
(***************************************************************************)
AI_MIN_SCORE == 70
AI_MAX_EVAL_PER_CLICK == 5
TxWindow == 800
Epsilon == 1
StaleDays == 14
NoteMax == 240
SummaryMax == 800
Micro == 1000000      \* units of 0.000001 in 1
Cent == 10000         \* units of 0.000001 in 0.01
AdvanceMin == 1       \* AdvanceDaysForm.days min_value
AdvanceMax == 365     \* AdvanceDaysForm.days max_value
Drift == 300          \* price_for drift 0.0003
Vol == 15000          \* price_for vol 0.015

(* None is the empty tuple, a present value v is <<v>> *)
NULL == <<>>
Some(v) == <<v>>

NoNote == [text |-> "", len |-> 0]

(***************************************************************************)
(* Generic helpers                                                         *)
(***************************************************************************)
RECURSIVE SumOver(_, _)
SumOver(S, F) ==
    IF S = {} THEN 0
    ELSE LET x == CHOOSE y \in S : TRUE
         IN  F[x] + SumOver(S \ {x}, F)

Min2(a, b) == IF a <= b THEN a ELSE b
Max2(a, b) == IF a >= b THEN a ELSE b

(* str.upper() / str.strip() on the strings the model uses *)
Upper(s) ==
    CASE s = "enter" -> "ENTER"
      [] s = "hold"  -> "HOLD"
      [] s = "aaa"   -> "AAA"
      [] s = " BBB"  -> " BBB"
      [] s = "usd"   -> "USD"
      [] s = "ars"   -> "ARS"
      [] OTHER       -> s

Strip(s) ==
    CASE s = " BBB" -> "BBB"
      [] OTHER      -> s

(* sorted() on symbols: code-point order of the model's normalised symbols *)
SymbolOrder == <<"AAA", "BBB", "CCC", "UNK">>
SymRank(s) == CHOOSE i \in DOMAIN SymbolOrder : SymbolOrder[i] = s

(***************************************************************************)
(* reco_engine._holdings_snapshot                                          *)
(***************************************************************************)
NormSym(raw) == Strip(Upper(IF raw = "" THEN "UNK" ELSE raw))

(* order_by("-tx_date", "-id") *)
NewerThan(T, i, j) ==
    \/ T[i].tx_date > T[j].tx_date
    \/ T[i].tx_date = T[j].tx_date /\ i > j

PosInOrder(T, i) == Cardinality({j \in DOMAIN T : NewerThan(T, j, i)})

(* [:800] *)
WindowIdx(T) == {i \in DOMAIN T : PosInOrder(T, i) < TxWindow}

TradeIdx(T) == {i \in WindowIdx(T) : T[i].tx_type \in {"BUY", "SELL"}}

SignedQty(T) ==
    [i \in TradeIdx(T) |->
        IF T[i].tx_type = "BUY" THEN T[i].quantity ELSE 0 - T[i].quantity]

RawHoldingsKeys(T) == {NormSym(T[i].asset) : i \in TradeIdx(T)}

NetQty(T, s) ==
    SumOver({i \in TradeIdx(T) : NormSym(T[i].asset) = s}, SignedQty(T))

(* position of a symbol in the dict's insertion order *)
FirstPos(T, s) ==
    LET P == {PosInOrder(T, i) : i \in {k \in TradeIdx(T) : NormSym(T[k].asset) = s}}
    IN  CHOOSE p \in P : \A q \in P : p <= q

(* mutant: tx_count counts the BUY / SELL rows only *)
_holdings_snapshot_trades(T) ==
    [ holdings |-> {s \in RawHoldingsKeys(T) : NetQty(T, s) > Epsilon},
      tx_count |-> Cardinality(TradeIdx(T)),
      negative |-> {s \in RawHoldingsKeys(T) : NetQty(T, s) < 0 - Epsilon} ]

_holdings_snapshot(T) ==
    [ holdings |-> {s \in RawHoldingsKeys(T) : NetQty(T, s) > Epsilon},
      tx_count |-> Cardinality(WindowIdx(T)),
      negative |-> {s \in RawHoldingsKeys(T) : NetQty(T, s) < 0 - Epsilon} ]

(* mutant: the last symbol of the sorted list *)
SortedFirst_last(S) == CHOOSE s \in S : \A t \in S : SymRank(s) >= SymRank(t)

(* sorted(...)[0] *)
SortedFirst(S) == CHOOSE s \in S : \A t \in S : SymRank(s) <= SymRank(t)

(***************************************************************************)
(* reco_engine._latest_prices                                              *)
(***************************************************************************)
PriceRows(P, sym) == {r \in P : r.asset = sym}

LatestPrice(P, sym) ==
    CHOOSE r \in PriceRows(P, sym) : \A q \in PriceRows(P, sym) : q.date <= r.date

_latest_prices(P, symbols) == {s \in symbols : PriceRows(P, s) # {}}

(***************************************************************************)
(* reco_engine.build_recos: the ordered list of candidate findings         *)
(***************************************************************************)
(* the f-string codes: rule, symbol or currency ("" when the rule has none), portfolio id *)
Code(rule, sym, pid) == <<rule, sym, pid>>

RecoDef(code, severity, tipo) ==
    [code |-> code, severity |-> severity, evidence |-> tipo]

Opt(cond, r) == IF cond THEN <<r>> ELSE <<>>

(* symbols that have a price, their value qty * close and the total *)
Priced(T, P) == _latest_prices(P, _holdings_snapshot(T).holdings)

Values(T, P) == [s \in Priced(T, P) |-> NetQty(T, s) * LatestPrice(P, s).close]

Total(T, P) == SumOver(Priced(T, P), Values(T, P))

(* mutant: a price of exactly 14 days is stale *)
StaleSyms_inclusive(T, P, d) == {s \in Priced(T, P) : d - LatestPrice(P, s).date >= StaleDays}

StaleSyms(T, P, d) == {s \in Priced(T, P) : d - LatestPrice(P, s).date > StaleDays}

(* max(weights, key=...): the first maximum in dict insertion order *)
TopSym(T, P) ==
    LET V == Values(T, P)
        M == {s \in Priced(T, P) : \A t \in Priced(T, P) : V[t] <= V[s]}
    IN  CHOOSE s \in M : \A t \in M : FirstPos(T, s) <= FirstPos(T, t)

Currency(A, s) ==
    LET c == IF s \in DOMAIN A THEN A[s] ELSE ""
    IN  Upper(IF c = "" THEN "?" ELSE c)

CurrencyValue(T, P, A, cur) ==
    SumOver({s \in Priced(T, P) : Currency(A, s) = cur}, Values(T, P))

BaseCurrency(pf) == Upper(IF pf.base_currency = "" THEN "ARS" ELSE pf.base_currency)

(* mutant: the base currency is not left out *)
OtherCurrencies_with_base(T, P, A, pf) ==
    {Currency(A, s) : s \in Priced(T, P)}

OtherCurrencies(T, P, A, pf) ==
    {Currency(A, s) : s \in Priced(T, P)} \ {BaseCurrency(pf)}

(* insertion position of a currency in currency_values *)
CurFirstPos(T, P, A, cur) ==
    LET Q == {FirstPos(T, s) : s \in {x \in Priced(T, P) : Currency(A, x) = cur}}
    IN  CHOOSE p \in Q : \A q \in Q : p <= q

TopCur(T, P, A, pf) ==
    LET O == OtherCurrencies(T, P, A, pf)
        M == {c \in O : \A d \in O :
                 CurrencyValue(T, P, A, d) <= CurrencyValue(T, P, A, c)}
    IN  CHOOSE c \in M : \A d \in M : CurFirstPos(T, P, A, c) <= CurFirstPos(T, P, A, d)

(* mutant: a weight of exactly 1% is small *)
SmallSyms_inclusive(T, P) ==
    {s \in Priced(T, P) : 100 * Values(T, P)[s] <= Total(T, P)}

SmallSyms(T, P) ==
    {s \in Priced(T, P) : 100 * Values(T, P)[s] < Total(T, P)}

(* mutant: the concentration thresholds are exclusive *)
ExposureRecos_exclusive(pf, A, T, P, d) ==
    LET top   == TopSym(T, P)
        topv  == Values(T, P)[top]
        total == Total(T, P)
        O     == OtherCurrencies(T, P, A, pf)
    IN  (IF 100 * topv > 55 * total
           THEN <<RecoDef(Code("CONC-HIGH", top, pf.id), "HIGH", "concentracion")>>
         ELSE IF 100 * topv > 35 * total
           THEN <<RecoDef(Code("CONC-MED", top, pf.id), "MED", "concentracion")>>
         ELSE <<>>)
        \o (IF O # {}
              THEN LET tc == TopCur(T, P, A, pf)
                   IN  Opt(100 * CurrencyValue(T, P, A, tc) >= 25 * total,
                           RecoDef(Code("FX", tc, pf.id), "MED", "moneda"))
              ELSE <<>>)
        \o Opt(StaleSyms(T, P, d) # {},
               RecoDef(Code("PRICES-STALE", "", pf.id), "LOW", "precios"))
        \o Opt(Cardinality(_holdings_snapshot(T).holdings) >= 10
                 /\ Cardinality(SmallSyms(T, P)) >= 5,
               RecoDef(Code("CLEANUP-SMALL", "", pf.id), "LOW", "estructura"))

ExposureRecos(pf, A, T, P, d) ==
    LET top   == TopSym(T, P)
        topv  == Values(T, P)[top]
        total == Total(T, P)
        O     == OtherCurrencies(T, P, A, pf)
    IN  (IF 100 * topv >= 55 * total
           THEN <<RecoDef(Code("CONC-HIGH", top, pf.id), "HIGH", "concentracion")>>
         ELSE IF 100 * topv >= 35 * total
           THEN <<RecoDef(Code("CONC-MED", top, pf.id), "MED", "concentracion")>>
         ELSE <<>>)
        \o (IF O # {}
              THEN LET tc == TopCur(T, P, A, pf)
                   IN  Opt(100 * CurrencyValue(T, P, A, tc) >= 25 * total,
                           RecoDef(Code("FX", tc, pf.id), "MED", "moneda"))
              ELSE <<>>)
        \o Opt(StaleSyms(T, P, d) # {},
               RecoDef(Code("PRICES-STALE", "", pf.id), "LOW", "precios"))
        \o Opt(Cardinality(_holdings_snapshot(T).holdings) >= 10
                 /\ Cardinality(SmallSyms(T, P)) >= 5,
               RecoDef(Code("CLEANUP-SMALL", "", pf.id), "LOW", "estructura"))

(* mutant: the no-holdings finding does not require a transaction *)
build_recos_nohold_always(pf, A, T, P, d) ==
    LET snap == _holdings_snapshot(T)
        H    == snap.holdings
    IN  Opt(snap.negative # {},
            RecoDef(Code("DATA-NEG", SortedFirst(snap.negative), pf.id), "HIGH", "calidad_datos"))
        \o Opt(snap.tx_count = 0,
               RecoDef(Code("SETUP-EMPTY", "", pf.id), "MED", "setup"))
        \o Opt(H = {},
               RecoDef(Code("SETUP-NOHOLD", "", pf.id), "LOW", "estado_portafolio"))
        \o (IF H = {} THEN <<>>
            ELSE Opt(H \ Priced(T, P) # {},
                     RecoDef(Code("PRICES-MISSING", "", pf.id), "MED", "precios"))
                 \o (IF Total(T, P) <= 0
                       THEN <<RecoDef(Code("PRICES-ALLMISSING", "", pf.id), "MED", "precios")>>
                       ELSE ExposureRecos(pf, A, T, P, d)))

(* mutant: the rules stop only when no held symbol has a price *)
build_recos_stop_unpriced(pf, A, T, P, d) ==
    LET snap == _holdings_snapshot(T)
        H    == snap.holdings
    IN  Opt(snap.negative # {},
            RecoDef(Code("DATA-NEG", SortedFirst(snap.negative), pf.id), "HIGH", "calidad_datos"))
        \o Opt(snap.tx_count = 0,
               RecoDef(Code("SETUP-EMPTY", "", pf.id), "MED", "setup"))
        \o Opt(snap.tx_count > 0 /\ H = {},
               RecoDef(Code("SETUP-NOHOLD", "", pf.id), "LOW", "estado_portafolio"))
        \o (IF H = {} THEN <<>>
            ELSE Opt(H \ Priced(T, P) # {},
                     RecoDef(Code("PRICES-MISSING", "", pf.id), "MED", "precios"))
                 \o (IF Priced(T, P) = {}
                       THEN <<RecoDef(Code("PRICES-ALLMISSING", "", pf.id), "MED", "precios")>>
                       ELSE ExposureRecos(pf, A, T, P, d)))

build_recos(pf, A, T, P, d) ==
    LET snap == _holdings_snapshot(T)
        H    == snap.holdings
    IN  Opt(snap.negative # {},
            RecoDef(Code("DATA-NEG", SortedFirst(snap.negative), pf.id), "HIGH", "calidad_datos"))
        \o Opt(snap.tx_count = 0,
               RecoDef(Code("SETUP-EMPTY", "", pf.id), "MED", "setup"))
        \o Opt(snap.tx_count > 0 /\ H = {},
               RecoDef(Code("SETUP-NOHOLD", "", pf.id), "LOW", "estado_portafolio"))
        \o (IF H = {} THEN <<>>
            ELSE Opt(H \ Priced(T, P) # {},
                     RecoDef(Code("PRICES-MISSING", "", pf.id), "MED", "precios"))
                 \o (IF Total(T, P) <= 0
                       THEN <<RecoDef(Code("PRICES-ALLMISSING", "", pf.id), "MED", "precios")>>
                       ELSE ExposureRecos(pf, A, T, P, d)))

(***************************************************************************)
(* reco_engine.diagnose_generation (read-only report)                      *)
(***************************************************************************)
(* mutant: the OPEN rows of every portfolio *)
OpenRows_any_portfolio(R, pid) == {i \in DOMAIN R : R[i].status = "OPEN"}

OpenRows(R, pid) == {i \in DOMAIN R : R[i].portfolio = pid /\ R[i].status = "OPEN"}

diagnose_generation(pf, T, P, d, R) ==
    LET snap == _holdings_snapshot(T)
        pr   == _latest_prices(P, snap.holdings)
    IN  [ portfolio_id        |-> pf.id,
          tx_count            |-> snap.tx_count,
          holdings_count      |-> Cardinality(snap.holdings),
          negative_positions  |-> snap.negative,
          prices_available    |-> Cardinality(pr),
          prices_missing      |-> Max2(0, Cardinality(snap.holdings) - Cardinality(pr)),
          prices_stale_gt_14d |-> Cardinality({s \in pr : d - LatestPrice(P, s).date > StaleDays}),
          open_opportunities  |-> Cardinality(OpenRows(R, pf.id)) ]

(***************************************************************************)
(* models.Recommendation and reco_engine._create_reco_safe                 *)
(***************************************************************************)
NewRec(pid, r, status) ==
    [ portfolio     |-> pid,
      code          |-> r.code,
      severity      |-> r.severity,
      evidence      |-> r.evidence,
      status        |-> status,
      decision_note |-> NoNote,
      ai_score      |-> NULL,
      ai_confidence |-> NULL,
      ai_action     |-> "HOLD",
      ai_summary    |-> 0,
      ai_reasons    |-> "{}",
      ai_evaluated_at |-> NULL ]

(* mutant: a row of any status suppresses the creation *)
exists_open_any_status(R, pid, code) ==
    \E i \in DOMAIN R : R[i].portfolio = pid /\ R[i].code = code

exists_open(R, pid, code) ==
    \E i \in DOMAIN R : R[i].portfolio = pid /\ R[i].code = code /\ R[i].status = "OPEN"

(* mutant: the .exists() check is skipped *)
_create_reco_safe_nocheck(R, pid, r, status, dbfail) ==
    IF dbfail THEN <<R, FALSE>>
    ELSE <<Append(R, NewRec(pid, r, status)), TRUE>>

(* <<rows afterwards, created>>; dbfail: the INSERT raises *)
_create_reco_safe(R, pid, r, status, dbfail) ==
    IF exists_open(R, pid, r.code) THEN <<R, FALSE>>
    ELSE IF dbfail THEN <<R, FALSE>>
    ELSE <<Append(R, NewRec(pid, r, status)), TRUE>>

(***************************************************************************)
(* reco_engine.generate_recommendations, run without interleaving          *)
(***************************************************************************)
RECURSIVE CreateAll_abort(_, _, _, _, _)
(* mutant: the first INSERT that raises ends the loop *)
CreateAll_abort(R, pid, cands, fails, i) ==
    IF i > Len(cands) THEN <<R, 0, 0>>
    ELSE IF i \in fails /\ ~exists_open(R, pid, cands[i].code) THEN <<R, 0, 1>>
    ELSE LET one  == _create_reco_safe(R, pid, cands[i], "OPEN", i \in fails)
             rest == CreateAll_abort(one[1], pid, cands, fails, i + 1)
         IN  <<rest[1],
               rest[2] + (IF one[2] THEN 1 ELSE 0),
               rest[3] + (IF one[2] THEN 0 ELSE 1)>>

RECURSIVE CreateAll(_, _, _, _, _)
(* state of the loop after candidates i..Len(cands): <<rows, created, failed>> *)
CreateAll(R, pid, cands, fails, i) ==
    IF i > Len(cands) THEN <<R, 0, 0>>
    ELSE LET one  == _create_reco_safe(R, pid, cands[i], "OPEN", i \in fails)
             rest == CreateAll(one[1], pid, cands, fails, i + 1)
         IN  <<rest[1],
               rest[2] + (IF one[2] THEN 1 ELSE 0),
               rest[3] + (IF one[2] THEN 0 ELSE 1)>>

GenReason(ncands, created, failed) ==
    IF ncands = 0 THEN "no_conditions"
    ELSE IF created = 0
      THEN (IF failed > 0 THEN "probably_open_duplicates+errors"
                          ELSE "probably_open_duplicates")
    ELSE ""

(* <<rows afterwards, RecoGenerationResult>> from the state the loop ended in *)
GenResult(ncands, out) ==
    <<out[1], [created |-> out[2], reason |-> GenReason(ncands, out[2], out[3])]>>

(* mutant: OPEN rows whose rule no longer fires are closed first *)
generate_recommendations_superseding(pf, A, T, P, d, R, fails) ==
    LET cands == build_recos(pf, A, T, P, d)
        codes == {cands[k].code : k \in DOMAIN cands}
        kept  == [i \in DOMAIN R |->
                     IF R[i].portfolio = pf.id /\ R[i].status = "OPEN" /\ R[i].code \notin codes
                       THEN [R[i] EXCEPT !.status = "IGNORED"] ELSE R[i]]
    IN  GenResult(Len(cands), CreateAll(kept, pf.id, cands, fails, 1))

generate_recommendations(pf, A, T, P, d, R, fails) ==
    LET cands == build_recos(pf, A, T, P, d)
    IN  GenResult(Len(cands), CreateAll(R, pf.id, cands, fails, 1))

(***************************************************************************)
(* ai_engine: JSON values of the service's answer and Python's coercions   *)
(***************************************************************************)
J(t, n, str) == [t |-> t, n |-> n, s |-> str]
JMissing  == J("missing", 0, "")     \* key absent from the object
JNull     == J("null", 0, "")
JInt(n)   == J("int", n, "")
JFloat(n) == J("float", n, "")       \* the number n + 0.5
JNumStr(n) == J("str", n, "digits")  \* a string of decimal digits, e.g. "80"
JStr(str) == J("str", 0, str)        \* any other string
JText(n)  == J("str", n, "text")     \* a text of n characters
JObj      == J("object", 0, "")
JList     == J("list", 0, "")

(* int(x): <<ok, value>>; ok = FALSE when int() raises *)
PyInt(x) ==
    CASE x.t = "int"   -> <<TRUE, x.n>>
      [] x.t = "float" -> <<TRUE, x.n>>
      [] x.t = "str" /\ x.s = "digits" -> <<TRUE, x.n>>
      [] OTHER -> <<FALSE, 0>>

(* data.get(key, default) *)
DictGet(x, default) == IF x.t = "missing" THEN default ELSE x

(* str(x) of the action field *)
PyStr(x) ==
    CASE x.t = "str" /\ x.s \notin {"digits", "text"} -> x.s
      [] x.t = "null" -> "None"
      [] OTHER -> "<repr>"

(* len(str(x)[:800]) of the summary field *)
SummaryLen(x) ==
    CASE x.t = "missing" -> 0
      [] x.t = "str" /\ x.s = "text" -> Min2(x.n, SummaryMax)
      [] x.t = "null" -> 4
      [] OTHER -> 2

ReasonsOf(x) ==
    CASE x.t = "missing" -> "{}"
      [] x.t = "object"  -> "object"
      [] OTHER           -> "raw"

AIEval(score, confidence, action, summary, reasons, called) ==
    [ raised |-> FALSE, called |-> called, score |-> score, confidence |-> confidence,
      action |-> action, summary |-> summary, reasons |-> reasons ]

(* the call does not return: an exception leaves evaluate_recommendation *)
Raised(called) ==
    [ raised |-> TRUE, called |-> called, score |-> 0, confidence |-> 0,
      action |-> "", summary |-> 0, reasons |-> "" ]

(* mutant: a client is built without an API key *)
_client_ignoring_key(key, sdk) == sdk

_client(key, sdk) == key /\ sdk

(* json.loads(raw) followed by the AIEval(...) construction *)
ParseEval(r) ==
    LET isobj == r.body = "object"
        sc == IF isobj THEN PyInt(DictGet(r.score, JInt(0))) ELSE <<TRUE, 0>>
        cf == IF isobj THEN PyInt(DictGet(r.confidence, JInt(0))) ELSE <<TRUE, 0>>
    IN  IF r.body = "nonobject" THEN Raised(TRUE)      \* data.get on a list / number
        ELSE IF ~sc[1] \/ ~cf[1] THEN Raised(TRUE)     \* int() raises
        ELSE AIEval(sc[2], cf[2],
                    IF isobj THEN PyStr(DictGet(r.action, JStr("NEEDS_DATA"))) ELSE "NEEDS_DATA",
                    IF isobj THEN SummaryLen(r.summary) ELSE 0,
                    IF isobj THEN ReasonsOf(r.reasons) ELSE "{}",
                    TRUE)

evaluate_recommendation(key, sdk, r) ==
    IF ~_client(key, sdk)
      THEN AIEval(0, 0, "NEEDS_DATA", 41, "missing_openai_api_key", FALSE)
    ELSE IF r.raises THEN Raised(TRUE)                 \* client.responses.create raises
    ELSE ParseEval(r)

(* answers of the external service *)
Resp(raises, body, score, confidence, action, summary, reasons) ==
    [ raises |-> raises, body |-> body, score |-> score, confidence |-> confidence,
      action |-> action, summary |-> summary, reasons |-> reasons ]

RespRaise == Resp(TRUE, "empty", JMissing, JMissing, JMissing, JMissing, JMissing)
RespBody(body) == Resp(FALSE, body, JMissing, JMissing, JMissing, JMissing, JMissing)
RespOK(action, score) ==
    Resp(FALSE, "object", JInt(score), JInt(50), JStr(action), JText(10), JObj)

(***************************************************************************)
(* views helpers                                                           *)
(***************************************************************************)
(* views._audit: the row is appended, or the insert raises and the         *)
(* exception is swallowed                                                  *)
AuditOutcomes(A, event_type) ==
    {A} \cup (IF Len(A) < MaxAudit THEN {Append(A, event_type)} ELSE {})

(* what a request answered: the branch taken, the row addressed (0: none),
   the kind of flash message, and the engine's created count and reason *)
Outcome(op, rid, result, created, reason) ==
    [op |-> op, rid |-> rid, result |-> result, created |-> created, reason |-> reason]

(* notes a request may carry, after .strip() *)
Note(text, len) == [text |-> text, len |-> len]

(* mutant: the note is stored whole *)
Truncate_whole(note) == [text |-> note.text, len |-> note.len]

(* note[:240] *)
Truncate(note) == [text |-> note.text, len |-> Min2(note.len, NoteMax)]

WithNote(rec, note) ==
    IF note.len > 0 THEN [rec EXCEPT !.decision_note = Truncate(note)] ELSE rec

(* the governance check of the accept branches *)
Governed(c) == c.AI_GOVERNANCE_REQUIRED /\ c.OPENAI_API_KEY

action_ok(rec) == Upper(rec.ai_action) = "ENTER"

(* mutant: the minimum itself is rejected *)
score_ok_exclusive(rec) == rec.ai_score # NULL /\ rec.ai_score[1] > AI_MIN_SCORE

score_ok(rec) == rec.ai_score # NULL /\ rec.ai_score[1] >= AI_MIN_SCORE

(* mutant: AI_ALLOW_MANUAL_OVERRIDE is not consulted *)
Blocked_ignoring_override(c, rec) ==
    Governed(c) /\ (~action_ok(rec) \/ ~score_ok(rec))

Blocked(c, rec) ==
    Governed(c) /\ (~action_ok(rec) \/ ~score_ok(rec)) /\ ~c.AI_ALLOW_MANUAL_OVERRIDE

(* the six assignments and rec.save(update_fields=[...ai fields...]) *)
WithEval(rec, e, now) ==
    [rec EXCEPT !.ai_score = Some(e.score),
                !.ai_confidence = Some(e.confidence),
                !.ai_action = e.action,
                !.ai_summary = e.summary,
                !.ai_reasons = e.reasons,
                !.ai_evaluated_at = Some(now)]

(* qs.order_by("-created_at")[:limit]: ids of the OPEN rows, newest first *)
EvalLimit == Max2(1, AI_MAX_EVAL_PER_CLICK)

RECURSIVE Descending(_)
Descending(S) ==
    IF S = {} THEN <<>>
    ELSE LET m == CHOOSE x \in S : \A y \in S : y <= x
         IN  <<m>> \o Descending(S \ {m})

(* mutant: the queryset is not sliced *)
BatchItems_unlimited(R, pid) == Descending(OpenRows(R, pid))

BatchItems(R, pid) ==
    LET all == Descending(OpenRows(R, pid))
    IN  SubSeq(all, 1, Min2(Len(all), EvalLimit))

RECURSIVE BatchEval(_, _, _, _, _, _)
(* the for loop over the batch: <<rows, evaluated, crashed>> *)
BatchEval(R, c, items, resps, now, k) ==
    IF k > Len(items) THEN <<R, 0, FALSE>>
    ELSE LET id == items[k]
             e  == evaluate_recommendation(c.OPENAI_API_KEY, c.sdk, resps[id])
         IN  IF e.raised THEN <<R, 0, TRUE>>
             ELSE LET rest == BatchEval([R EXCEPT ![id] = WithEval(R[id], e, now)],
                                        c, items, resps, now, k + 1)
                  IN  <<rest[1], rest[2] + 1, rest[3]>>

(***************************************************************************)
(* views.opportunities (inbox), one action per POST branch                 *)
(***************************************************************************)
Store == <<portfolio, assets, txs, prices, today, cfg,
           faulty, session, sim, positions, trades, treq>>

(* fails: the candidates whose INSERT raises *)
opportunities_generate(fails) ==
    \E out \in {generate_recommendations(portfolio, assets, txs, prices, today, recs, fails)} :
        /\ recs' = out[1]
        /\ audit' \in AuditOutcomes(audit, "reco_generate")
        /\ last' = Outcome("generate", 0, IF out[2].created > 0 THEN "success" ELSE "warning",
                           out[2].created, out[2].reason)
        /\ UNCHANGED <<Store, req, ev>>

demo_defs(pid) ==
    << RecoDef(Code("FND-ALPHA", "", pid), "HIGH", "demo"),
       RecoDef(Code("FND-BETA", "", pid), "MED", "demo"),
       RecoDef(Code("FND-GAMMA", "", pid), "LOW", "demo") >>

opportunities_demo(fails) ==
    IF OpenRows(recs, portfolio.id) # {}
      THEN /\ last' = Outcome("demo", 0, "info", 0, "already_open")
           /\ UNCHANGED <<Store, recs, audit, req, ev>>
      ELSE LET out == CreateAll(recs, portfolio.id, demo_defs(portfolio.id), fails, 1)
           IN  /\ recs' = out[1]
               /\ audit' \in AuditOutcomes(audit, "reco_demo_seed")
               /\ last' = Outcome("demo", 0, "success", out[2], "")
               /\ UNCHANGED <<Store, req, ev>>

(* resps: the service's answer for each row of the batch *)
opportunities_ai_eval(resps) ==
    LET out == BatchEval(recs, cfg, BatchItems(recs, portfolio.id), resps, today, 1)
    IN  /\ recs' = out[1]
        /\ IF out[3]
             THEN /\ audit' = audit
                  /\ last' = Outcome("ai_eval", 0, "error500", out[2], "")
             ELSE /\ audit' \in AuditOutcomes(audit, "ai_eval_batch")
                  /\ last' = Outcome("ai_eval", 0, "success", out[2], "")
        /\ UNCHANGED <<Store, req, ev>>

(* mutant: the note is saved before the governance check *)
opportunities_accept_note_first(rid, note) ==
    IF Blocked(cfg, recs[rid])
      THEN /\ recs' = [recs EXCEPT ![rid] = WithNote(recs[rid], note)]
           /\ last' = Outcome("accept", rid, "blocked_by_ai", 0, "")
           /\ UNCHANGED <<Store, audit, req, ev>>
      ELSE /\ recs' = [recs EXCEPT ![rid] =
                          WithNote([recs[rid] EXCEPT !.status = "ACCEPTED"], note)]
           /\ audit' \in AuditOutcomes(audit, "reco_accept")
           /\ last' = Outcome("accept", rid, "success", 0, "")
           /\ UNCHANGED <<Store, req, ev>>

opportunities_accept(rid, note) ==
    IF Blocked(cfg, recs[rid])
      THEN /\ last' = Outcome("accept", rid, "blocked_by_ai", 0, "")
           /\ UNCHANGED <<Store, recs, audit, req, ev>>
      ELSE /\ recs' = [recs EXCEPT ![rid] =
                          WithNote([recs[rid] EXCEPT !.status = "ACCEPTED"], note)]
           /\ audit' \in AuditOutcomes(audit, "reco_accept")
           /\ last' = Outcome("accept", rid, "success", 0, "")
           /\ UNCHANGED <<Store, req, ev>>

(* mutant: the row is saved whole from a form that carries no evaluation *)
opportunities_ignore_resetting(rid, note) ==
    /\ recs' = [recs EXCEPT ![rid] =
                   WithNote([recs[rid] EXCEPT !.status = "IGNORED",
                                              !.ai_score = NULL,
                                              !.ai_action = "HOLD"], note)]
    /\ audit' \in AuditOutcomes(audit, "reco_ignore")
    /\ last' = Outcome("ignore", rid, "success", 0, "")
    /\ UNCHANGED <<Store, req, ev>>

opportunities_ignore(rid, note) ==
    /\ recs' = [recs EXCEPT ![rid] =
                   WithNote([recs[rid] EXCEPT !.status = "IGNORED"], note)]
    /\ audit' \in AuditOutcomes(audit, "reco_ignore")
    /\ last' = Outcome("ignore", rid, "success", 0, "")
    /\ UNCHANGED <<Store, req, ev>>

(***************************************************************************)
(* views.opportunities_db (database screen), one action per POST branch    *)
(***************************************************************************)
opportunities_db_ai_eval(resps) ==
    LET out == BatchEval(recs, cfg, BatchItems(recs, portfolio.id), resps, today, 1)
    IN  /\ recs' = out[1]
        /\ last' = Outcome("db_ai_eval", 0, IF out[3] THEN "error500" ELSE "success",
                           out[2], "")
        /\ UNCHANGED <<Store, audit, req, ev>>

opportunities_db_ai_one(rid, r) ==
    LET e == evaluate_recommendation(cfg.OPENAI_API_KEY, cfg.sdk, r)
    IN  IF e.raised
          THEN /\ last' = Outcome("db_ai_one", rid, "error500", 0, "")
               /\ UNCHANGED <<Store, recs, audit, req, ev>>
          ELSE /\ recs' = [recs EXCEPT ![rid] = WithEval(recs[rid], e, today)]
               /\ last' = Outcome("db_ai_one", rid, "success", 0, "")
               /\ UNCHANGED <<Store, audit, req, ev>>

opportunities_db_accept(rid, note) ==
    IF Blocked(cfg, recs[rid])
      THEN /\ last' = Outcome("db_accept", rid, "blocked_by_ai", 0, "")
           /\ UNCHANGED <<Store, recs, audit, req, ev>>
      ELSE /\ recs' = [recs EXCEPT ![rid] =
                          WithNote([recs[rid] EXCEPT !.status = "ACCEPTED"], note)]
           /\ last' = Outcome("db_accept", rid, "success", 0, "")
           /\ UNCHANGED <<Store, audit, req, ev>>

opportunities_db_ignore(rid, note) ==
    /\ recs' = [recs EXCEPT ![rid] =
                   WithNote([recs[rid] EXCEPT !.status = "IGNORED"], note)]
    /\ last' = Outcome("db_ignore", rid, "success", 0, "")
    /\ UNCHANGED <<Store, audit, req, ev>>

(* mutant: reopening passes through the governance check *)
opportunities_db_reopen_governed(rid, note) ==
    IF Blocked(cfg, recs[rid])
      THEN /\ last' = Outcome("db_reopen", rid, "blocked_by_ai", 0, "")
           /\ UNCHANGED <<Store, recs, audit, req, ev>>
      ELSE /\ recs' = [recs EXCEPT ![rid] =
                          WithNote([recs[rid] EXCEPT !.status = "OPEN"], note)]
           /\ last' = Outcome("db_reopen", rid, "success", 0, "")
           /\ UNCHANGED <<Store, audit, req, ev>>

opportunities_db_reopen(rid, note) ==
    /\ recs' = [recs EXCEPT ![rid] =
                   WithNote([recs[rid] EXCEPT !.status = "OPEN"], note)]
    /\ last' = Outcome("db_reopen", rid, "success", 0, "")
    /\ UNCHANGED <<Store, audit, req, ev>>

(***************************************************************************)
(* Decimal arithmetic of the simulator.  Quantities, prices and cash are   *)
(* integers in units of 0.000001.  A DecimalField value is rounded to the  *)
(* field's decimal places when the row is written; a tie is rounded to the *)
(* even neighbour ("even": Django formats the value) or away from zero     *)
(* ("up": the database casts it), depending on the database backend.       *)
(***************************************************************************)
RECURSIVE GCD(_, _)
GCD(a, b) == IF b = 0 THEN a ELSE GCD(b, a % b)

(* the integer nearest to n / d (d > 0) *)
DivRound(n, d, ties) ==
    LET q == n \div d
        r == n % d
    IN  IF 2 * r < d THEN q
        ELSE IF 2 * r > d THEN q + 1
        ELSE IF ties = "up" THEN (IF n >= 0 THEN q + 1 ELSE q)
        ELSE (IF q % 2 = 0 THEN q ELSE q + 1)

(* a value as stored in a column with unit `unit` *)
Stored(x, unit, ties) == DivRound(x, unit, ties) * unit

(* qty * px; exact when the product has at most 6 decimal places *)
Mul(qty, px) == (qty \div Micro) * px + ((qty % Micro) * px) \div Micro

(* ((pos.quantity * pos.avg_price) + (qty * px)) / new_qty, as stored *)
WeightedAvg(old_qty, old_avg, qty, px, ties) ==
    LET num == Mul(old_qty, old_avg) + Mul(qty, px)
        den == old_qty + qty
        g   == GCD(Micro, den)
    IN  DivRound(num * (Micro \div g), den \div g, ties)

(***************************************************************************)
(* views.sim_detail, POST action=trade (the whole request)                 *)
(***************************************************************************)
SimRest == <<portfolio, assets, txs, prices, today, cfg, faulty, session,
             treq, recs, served, req, ev>>

SimSym(symbol) == Upper(Strip(symbol))

NewPosition == [quantity |-> 0, avg_price |-> 0]

(* SimPosition.objects.get_or_create(simulation, symbol, defaults) *)
get_or_create(Pos, sym) ==
    IF sym \in DOMAIN Pos THEN Pos
    ELSE [x \in DOMAIN Pos \cup {sym} |-> IF x = sym THEN NewPosition ELSE Pos[x]]

SimTrade(sym, side, qty, px, day) ==
    [symbol |-> sym, side |-> side, quantity |-> qty, price |-> px, day |-> day]

(* mutant: the average is overwritten by the price of the last BUY *)
Bought_last_price(pos, qty, px, ties) ==
    [quantity |-> pos.quantity + qty, avg_price |-> px]

(* the position after a BUY / a SELL that passed its check *)
Bought(pos, qty, px, ties) ==
    [ quantity  |-> pos.quantity + qty,
      avg_price |-> IF pos.quantity > 0 /\ pos.avg_price > 0
                      THEN WeightedAvg(pos.quantity, pos.avg_price, qty, px, ties)
                      ELSE px ]

(* mutant: a SELL closes the whole position *)
Sold_closing(pos, qty) == NewPosition

Sold(pos, qty) ==
    IF pos.quantity - qty <= 0 THEN NewPosition
    ELSE [pos EXCEPT !.quantity = pos.quantity - qty]

(* mutant: a BUY is not checked against the cash *)
sim_trade_overdraw(symbol, side, qty, px, ties) ==
    LET sym == SimSym(symbol)
        Pos == get_or_create(positions, sym)
        pos == Pos[sym]
    IN  IF side = "SELL" /\ pos.quantity < qty
          THEN /\ positions' = Pos
               /\ last' = Outcome("trade", 0, "insufficient_position", 0, "")
               /\ UNCHANGED <<SimRest, sim, trades, audit>>
        ELSE /\ positions' = [Pos EXCEPT ![sym] =
                                 IF side = "BUY" THEN Bought(pos, qty, px, ties)
                                                 ELSE Sold(pos, qty)]
             /\ sim' = [sim EXCEPT !.virtual_cash =
                           Stored(IF side = "BUY" THEN sim.virtual_cash - Mul(qty, px)
                                                  ELSE sim.virtual_cash + Mul(qty, px),
                                  Cent, ties)]
             /\ trades' = Append(trades, SimTrade(sym, side, qty, px, sim.current_day))
             /\ audit' \in AuditOutcomes(audit, "sim_trade")
             /\ last' = Outcome("trade", 0, "success", 0, "")
             /\ UNCHANGED SimRest

(* ties: how the backend rounds a tie when it stores a Decimal *)
sim_trade(symbol, side, qty, px, ties) ==
    LET sym == SimSym(symbol)
        Pos == get_or_create(positions, sym)
        pos == Pos[sym]
    IN  IF side = "BUY" /\ sim.virtual_cash < Mul(qty, px)
          THEN /\ positions' = Pos
               /\ last' = Outcome("trade", 0, "insufficient_cash", 0, "")
               /\ UNCHANGED <<SimRest, sim, trades, audit>>
        ELSE IF side = "SELL" /\ pos.quantity < qty
          THEN /\ positions' = Pos
               /\ last' = Outcome("trade", 0, "insufficient_position", 0, "")
               /\ UNCHANGED <<SimRest, sim, trades, audit>>
        ELSE /\ positions' = [Pos EXCEPT ![sym] =
                                 IF side = "BUY" THEN Bought(pos, qty, px, ties)
                                                 ELSE Sold(pos, qty)]
             /\ sim' = [sim EXCEPT !.virtual_cash =
                           Stored(IF side = "BUY" THEN sim.virtual_cash - Mul(qty, px)
                                                  ELSE sim.virtual_cash + Mul(qty, px),
                                  Cent, ties)]
             /\ trades' = Append(trades, SimTrade(sym, side, qty, px, sim.current_day))
             /\ audit' \in AuditOutcomes(audit, "sim_trade")
             /\ last' = Outcome("trade", 0, "success", 0, "")
             /\ UNCHANGED SimRest

(***************************************************************************)
(* views.sim_detail, POST action=advance (the whole request).  days is the *)
(* integer submitted; AdvanceDaysForm accepts 1..365.  The outcome carries *)
(* the days submitted in its count field (the success message shows them). *)
(***************************************************************************)
(* mutant: the form does not validate the range of days *)
sim_advance_unvalidated(days) ==
    /\ sim' = [sim EXCEPT !.current_day = sim.current_day + days]
    /\ audit' \in AuditOutcomes(audit, "sim_advance")
    /\ last' = Outcome("advance", 0, "success", days, "")
    /\ UNCHANGED <<SimRest, positions, trades>>

sim_advance(days) ==
    IF days >= AdvanceMin /\ days <= AdvanceMax
      THEN /\ sim' = [sim EXCEPT !.current_day = sim.current_day + days]
           /\ audit' \in AuditOutcomes(audit, "sim_advance")
           /\ last' = Outcome("advance", 0, "success", days, "")
           /\ UNCHANGED <<SimRest, positions, trades>>
      ELSE /\ last' = Outcome("advance", 0, "invalid", days, "")
           /\ UNCHANGED <<SimRest, sim, positions, trades, audit>>

(***************************************************************************)
(* signals.on_login / on_login_failed / on_logout: receivers of Django's   *)
(* auth signals.  AuditEvent.objects.create is called without try/except,  *)
(* so when the insert raises the exception leaves the login or logout      *)
(* request: the response is an error and the session is left as it was.    *)
(* ok: the insert succeeds                                                 *)
(***************************************************************************)
SessionRest == <<portfolio, assets, txs, prices, today, cfg, faulty,
                 sim, positions, trades, treq, recs, served, req, ev>>

on_login(ok) ==
    /\ session = "anon"
    /\ IF ok /\ Len(audit) < MaxAudit
         THEN /\ audit' = Append(audit, "login")
              /\ session' = "auth"
              /\ last' = Outcome("login", 0, "success", 0, "")
         ELSE /\ last' = Outcome("login", 0, "error500", 0, "")
              /\ UNCHANGED <<audit, session>>
    /\ UNCHANGED SessionRest

on_login_failed(ok) ==
    /\ session = "anon"
    /\ IF ok /\ Len(audit) < MaxAudit
         THEN /\ audit' = Append(audit, "login_failed")
              /\ last' = Outcome("login_failed", 0, "invalid", 0, "")
         ELSE /\ last' = Outcome("login_failed", 0, "error500", 0, "")
              /\ audit' = audit
    /\ UNCHANGED <<SessionRest, session>>

on_logout(ok) ==
    /\ session = "auth"
    /\ IF ok /\ Len(audit) < MaxAudit
         THEN /\ audit' = Append(audit, "logout")
              /\ session' = "anon"
              /\ last' = Outcome("logout", 0, "success", 0, "")
         ELSE /\ last' = Outcome("logout", 0, "error500", 0, "")
              /\ UNCHANGED <<audit, session>>
    /\ UNCHANGED SessionRest

(***************************************************************************)
(* Initial store                                                           *)
(***************************************************************************)
Settings ==
    [ OPENAI_API_KEY : BOOLEAN, sdk : {TRUE},
      AI_GOVERNANCE_REQUIRED : BOOLEAN, AI_ALLOW_MANUAL_OVERRIDE : BOOLEAN ]

Tx(asset, tx_type, quantity, tx_date) ==
    [asset |-> asset, tx_type |-> tx_type, quantity |-> quantity, tx_date |-> tx_date]

Price(asset, date, close) == [asset |-> asset, date |-> date, close |-> close]

NoOutcome == Outcome("", 0, "", 0, "")
NoEval == [done |-> FALSE, key |-> FALSE, sdk |-> FALSE, resp |-> RespRaise,
           out |-> AIEval(0, 0, "", 0, "", FALSE)]

(* a logged-in user with a new simulation, no fault in the database *)
InitOther ==
    /\ faulty = {}
    /\ session = "auth"
    /\ sim = [virtual_cash |-> 0, current_day |-> 0]
    /\ positions = <<>>
    /\ trades = <<>>
    /\ treq = <<>>

(* a new user's default portfolio and empty tables *)
InitStore ==
    /\ portfolio = [id |-> 1, base_currency |-> "ARS"]
    /\ assets = [s \in {"AAA"} |-> "USD"]
    /\ prices = {}
    /\ today = 20
    /\ recs = <<>>
    /\ audit = <<>>
    /\ last = NoOutcome
    /\ served = 0
    /\ req = <<>>
    /\ ev = NoEval
    /\ InitOther

(***************************************************************************)
(* SpecDedup: generation, demo seeding and the life-cycle from an empty    *)
(* store, AI not configured; every run serves at most MaxRequests requests *)
(***************************************************************************)
DedupNotes == {NoNote}

InitDedup ==
    /\ cfg \in {c \in Settings : ~c.OPENAI_API_KEY /\ c.AI_GOVERNANCE_REQUIRED
                                 /\ ~c.AI_ALLOW_MANUAL_OVERRIDE}
    /\ txs \in {<<>>, <<Tx("aaa", "BUY", 5, 1)>>}
    /\ InitStore

Serve == served < MaxRequests /\ served' = served + 1

DedupGenerate ==
    /\ Serve
    /\ \E fails \in SUBSET (1 .. Len(build_recos(portfolio, assets, txs, prices, today))) :
          opportunities_generate(fails)

DedupDemo ==
    /\ Serve
    /\ \E fails \in SUBSET (1 .. Len(demo_defs(portfolio.id))) : opportunities_demo(fails)

DedupAccept ==
    Serve /\ \E rid \in DOMAIN recs, note \in DedupNotes : opportunities_accept(rid, note)
DedupIgnore ==
    Serve /\ \E rid \in DOMAIN recs, note \in DedupNotes : opportunities_ignore(rid, note)
DedupDbAccept ==
    Serve /\ \E rid \in DOMAIN recs, note \in DedupNotes : opportunities_db_accept(rid, note)
DedupDbIgnore ==
    Serve /\ \E rid \in DOMAIN recs, note \in DedupNotes : opportunities_db_ignore(rid, note)
DedupDbReopen ==
    Serve /\ \E rid \in DOMAIN recs, note \in DedupNotes : opportunities_db_reopen(rid, note)

NextDedup ==
    \/ DedupGenerate
    \/ DedupDemo
    \/ DedupAccept
    \/ DedupIgnore
    \/ DedupDbAccept
    \/ DedupDbIgnore
    \/ DedupDbReopen

SpecDedup == InitDedup /\ [][NextDedup]_vars

(***************************************************************************)
(* SpecGov: the life-cycle of one recommendation with the governance gate  *)
(* active (AI configured, governance required, no manual override).  The   *)
(* store holds the row that one generate on the empty portfolio creates.   *)
(***************************************************************************)
GovNotes == {NoNote, Note("n", 3), Note("long", NoteMax + 1)}

GovResponses ==
    { RespOK("ENTER", AI_MIN_SCORE), RespOK("ENTER", AI_MIN_SCORE - 1),
      RespOK("enter", AI_MIN_SCORE), RespOK("HOLD", 100), RespRaise }

GateOn(c) == c.OPENAI_API_KEY /\ c.AI_GOVERNANCE_REQUIRED /\ ~c.AI_ALLOW_MANUAL_OVERRIDE

AfterGenerate ==
    /\ portfolio = [id |-> 1, base_currency |-> "ARS"]
    /\ assets = [s \in {"AAA"} |-> "USD"]
    /\ txs = <<>>
    /\ prices = {}
    /\ today = 20
    /\ recs = generate_recommendations(portfolio, assets, txs, prices, today, <<>>, {})[1]
    /\ audit = <<>>
    /\ last = NoOutcome
    /\ served = 0
    /\ req = <<>>
    /\ ev = NoEval
    /\ InitOther

InitGov ==
    /\ cfg \in {c \in Settings : GateOn(c)}
    /\ AfterGenerate

GovAiEval ==
    /\ \E resps \in [OpenRows(recs, portfolio.id) -> GovResponses] : opportunities_ai_eval(resps)
    /\ UNCHANGED served
GovDbAiEval ==
    /\ \E resps \in [OpenRows(recs, portfolio.id) -> GovResponses] : opportunities_db_ai_eval(resps)
    /\ UNCHANGED served
GovDbAiOne ==
    /\ \E rid \in DOMAIN recs, r \in GovResponses : opportunities_db_ai_one(rid, r)
    /\ UNCHANGED served
GovAccept ==
    /\ \E rid \in DOMAIN recs, note \in GovNotes : opportunities_accept(rid, note)
    /\ UNCHANGED served
GovIgnore ==
    /\ \E rid \in DOMAIN recs, note \in GovNotes : opportunities_ignore(rid, note)
    /\ UNCHANGED served
GovDbAccept ==
    /\ \E rid \in DOMAIN recs, note \in GovNotes : opportunities_db_accept(rid, note)
    /\ UNCHANGED served
GovDbIgnore ==
    /\ \E rid \in DOMAIN recs, note \in GovNotes : opportunities_db_ignore(rid, note)
    /\ UNCHANGED served
GovDbReopen ==
    /\ \E rid \in DOMAIN recs, note \in GovNotes : opportunities_db_reopen(rid, note)
    /\ UNCHANGED served

NextGov ==
    \/ GovAiEval
    \/ GovDbAiEval
    \/ GovDbAiOne
    \/ GovAccept
    \/ GovIgnore
    \/ GovDbAccept
    \/ GovDbIgnore
    \/ GovDbReopen

SpecGov == InitGov /\ [][NextGov]_vars

(***************************************************************************)
(* SpecLife: the same life-cycle under every combination of the settings   *)
(***************************************************************************)
InitLife ==
    /\ cfg \in Settings
    /\ AfterGenerate

SpecLife == InitLife /\ [][NextGov]_vars

(***************************************************************************)
(* SpecConc: generate requests of the same user served by concurrent       *)
(* workers.  Every ORM statement is one step (autocommit, no transaction,  *)
(* no lock): the candidates are built, then for each candidate the         *)
(* .exists() query and the INSERT of _create_reco_safe, then the result.   *)
(***************************************************************************)
Requests == 1 .. NumRequests

Idle == [pc |-> "idle", cands |-> <<>>, i |-> 0, created |-> 0, failed |-> 0, reason |-> ""]

(* the for loop moves to the next candidate *)
Advance(r, ok) ==
    [r EXCEPT !.i = r.i + 1,
              !.created = r.created + (IF ok THEN 1 ELSE 0),
              !.failed = r.failed + (IF ok THEN 0 ELSE 1),
              !.pc = IF r.i + 1 > Len(r.cands) THEN "finish" ELSE "check"]

generate_begin(q) ==
    /\ req[q].pc = "idle"
    /\ LET cands == build_recos(portfolio, assets, txs, prices, today)
       IN  req' = [req EXCEPT ![q] =
                     [Idle EXCEPT !.cands = cands, !.i = 1,
                                  !.pc = IF cands = <<>> THEN "finish" ELSE "check"]]
    /\ UNCHANGED <<Store, recs, audit, last, served, ev>>

generate_check(q) ==
    /\ req[q].pc = "check"
    /\ req' = [req EXCEPT ![q] =
                 IF exists_open(recs, portfolio.id, req[q].cands[req[q].i].code)
                   THEN Advance(req[q], FALSE)
                   ELSE [req[q] EXCEPT !.pc = "create"]]
    /\ UNCHANGED <<Store, recs, audit, last, served, ev>>

generate_create(q, dbfail) ==
    /\ req[q].pc = "create"
    /\ recs' = IF dbfail THEN recs
               ELSE Append(recs, NewRec(portfolio.id, req[q].cands[req[q].i], "OPEN"))
    /\ req' = [req EXCEPT ![q] = Advance(req[q], ~dbfail)]
    /\ UNCHANGED <<Store, audit, last, served, ev>>

generate_finish(q) ==
    /\ req[q].pc = "finish"
    /\ LET reason == GenReason(Len(req[q].cands), req[q].created, req[q].failed)
       IN  /\ req' = [req EXCEPT ![q].pc = "done", ![q].reason = reason]
           /\ last' = Outcome("generate", 0,
                              IF req[q].created > 0 THEN "success" ELSE "warning",
                              req[q].created, reason)
    /\ audit' \in AuditOutcomes(audit, "reco_generate")
    /\ UNCHANGED <<Store, recs, served, ev>>

InitConc ==
    /\ cfg \in {c \in Settings : ~c.OPENAI_API_KEY /\ c.AI_GOVERNANCE_REQUIRED
                                 /\ ~c.AI_ALLOW_MANUAL_OVERRIDE}
    /\ txs \in {<<>>, <<Tx("aaa", "BUY", 5, 1)>>}
    /\ portfolio = [id |-> 1, base_currency |-> "ARS"]
    /\ assets = [s \in {"AAA"} |-> "USD"]
    /\ prices = {}
    /\ today = 20
    /\ recs = <<>>
    /\ audit = <<>>
    /\ last = NoOutcome
    /\ served = 0
    /\ req = [q \in Requests |-> Idle]
    /\ ev = NoEval
    /\ InitOther

ConcBegin == \E q \in Requests : generate_begin(q)
ConcCheck == \E q \in Requests : generate_check(q)
ConcCreate == \E q \in Requests, dbfail \in BOOLEAN : generate_create(q, dbfail)
ConcFinish == \E q \in Requests : generate_finish(q)

NextConc ==
    \/ ConcBegin
    \/ ConcCheck
    \/ ConcCreate
    \/ ConcFinish

SpecConc == InitConc /\ [][NextConc]_vars

(***************************************************************************)
(* SpecAI: evaluate_recommendation called with every combination of        *)
(* credential, SDK availability and answer of the service                  *)
(***************************************************************************)
ScoreValues == {JMissing, JInt(0), JInt(AI_MIN_SCORE), JInt(150), JNumStr(80),
                JStr("high"), JNull, JFloat(80)}
ConfidenceValues == {JMissing, JInt(50), JStr("high")}
ActionValues == {JMissing, JStr("ENTER"), JStr("enter"), JStr("HOLD"), JNull}
SummaryValues == {JMissing, JText(10), JText(SummaryMax + 1)}
ReasonsValues == {JMissing, JObj, JList}

AdapterResponses ==
    {RespRaise, RespBody("empty"), RespBody("notjson"), RespBody("nonobject")}
    \cup {Resp(FALSE, "object", sc, cf, ac, su, re) :
            sc \in ScoreValues, cf \in ConfidenceValues, ac \in ActionValues,
            su \in SummaryValues, re \in ReasonsValues}

(* the call that Init prepared is made *)
AdapterCall ==
    /\ ~ev.done
    /\ ev' = [ev EXCEPT !.done = TRUE,
                        !.out = evaluate_recommendation(ev.key, ev.sdk, ev.resp)]
    /\ UNCHANGED <<Store, recs, audit, last, served, req>>

InitAI ==
    /\ cfg \in {c \in Settings : GateOn(c)}
    /\ txs = <<>>
    /\ portfolio = [id |-> 1, base_currency |-> "ARS"]
    /\ assets = [s \in {"AAA"} |-> "USD"]
    /\ prices = {}
    /\ today = 20
    /\ recs = <<>>
    /\ audit = <<>>
    /\ last = NoOutcome
    /\ served = 0
    /\ req = <<>>
    /\ ev \in [done : {FALSE}, key : BOOLEAN, sdk : BOOLEAN, resp : AdapterResponses,
               out : {NoEval.out}]
    /\ InitOther

NextAI == AdapterCall

SpecAI == InitAI /\ [][NextAI]_vars

(***************************************************************************)
(* SpecGen: generation over three portfolios (no transactions; one holding *)
(* without price; three equal holdings with fresh prices in the base       *)
(* currency) against a database that rejects the INSERT of the codes in    *)
(* faulty; rows are closed between two generations                         *)
(***************************************************************************)
Scenario(A, T, P) == [assets |-> A, txs |-> T, prices |-> P]

GenScenarios ==
    { Scenario([s \in {"AAA"} |-> "USD"], <<>>, {}),
      Scenario([s \in {"AAA"} |-> "USD"], <<Tx("aaa", "BUY", 5, 1)>>, {}),
      Scenario([s \in {"AAA", "BBB", "CCC"} |-> "ARS"],
               <<Tx("AAA", "BUY", 5, 1), Tx("BBB", "BUY", 5, 1), Tx("CCC", "BUY", 5, 1)>>,
               {Price("AAA", 15, 2), Price("BBB", 15, 2), Price("CCC", 15, 2)}) }

GenCodes ==
    {Code("SETUP-EMPTY", "", 1), Code("PRICES-MISSING", "", 1), Code("PRICES-ALLMISSING", "", 1)}

(* the candidates whose INSERT raises *)
FailsOf(cands, F) == {i \in DOMAIN cands : cands[i].code \in F}

InitGen ==
    /\ cfg \in {c \in Settings : ~c.OPENAI_API_KEY /\ c.AI_GOVERNANCE_REQUIRED
                                 /\ ~c.AI_ALLOW_MANUAL_OVERRIDE}
    /\ \E sc \in GenScenarios :
          assets = sc.assets /\ txs = sc.txs /\ prices = sc.prices
    /\ portfolio = [id |-> 1, base_currency |-> "ARS"]
    /\ today = 20
    /\ recs = <<>>
    /\ audit = <<>>
    /\ last = NoOutcome
    /\ served = 0
    /\ req = <<>>
    /\ ev = NoEval
    /\ faulty \in SUBSET GenCodes
    /\ session = "auth"
    /\ sim = [virtual_cash |-> 0, current_day |-> 0]
    /\ positions = <<>>
    /\ trades = <<>>
    /\ treq = <<>>

GenGenerate ==
    /\ Serve
    /\ opportunities_generate(
          FailsOf(build_recos(portfolio, assets, txs, prices, today), faulty))

GenAccept ==
    Serve /\ \E rid \in DOMAIN recs, note \in DedupNotes : opportunities_accept(rid, note)
GenIgnore ==
    Serve /\ \E rid \in DOMAIN recs, note \in DedupNotes : opportunities_ignore(rid, note)

NextGen ==
    \/ GenGenerate
    \/ GenAccept
    \/ GenIgnore

SpecGen == InitGen /\ [][NextGen]_vars

(***************************************************************************)
(* SpecBatch: batch AI evaluation of the two OPEN rows that one generate   *)
(* creates for a holding without price, AI configured                      *)
(***************************************************************************)
InitBatch ==
    /\ cfg \in {c \in Settings : GateOn(c)}
    /\ portfolio = [id |-> 1, base_currency |-> "ARS"]
    /\ assets = [s \in {"AAA"} |-> "USD"]
    /\ txs = <<Tx("aaa", "BUY", 5, 1)>>
    /\ prices = {}
    /\ today = 20
    /\ recs = generate_recommendations(portfolio, assets, txs, prices, today, <<>>, {})[1]
    /\ audit = <<>>
    /\ last = NoOutcome
    /\ served = 0
    /\ req = <<>>
    /\ ev = NoEval
    /\ InitOther

NextBatch ==
    \/ GovAiEval
    \/ GovDbAiEval

SpecBatch == InitBatch /\ [][NextBatch]_vars

(***************************************************************************)
(* SpecAudit: login, failed login, logout and the audited inbox decisions  *)
(* of a user whose portfolio has one OPEN row; AuditEvent inserts may fail *)
(***************************************************************************)
InitAudit ==
    /\ cfg \in {c \in Settings : ~GateOn(c)}
    /\ portfolio = [id |-> 1, base_currency |-> "ARS"]
    /\ assets = [s \in {"AAA"} |-> "USD"]
    /\ txs = <<>>
    /\ prices = {}
    /\ today = 20
    /\ recs = generate_recommendations(portfolio, assets, txs, prices, today, <<>>, {})[1]
    /\ audit = <<>>
    /\ last = NoOutcome
    /\ served = 0
    /\ req = <<>>
    /\ ev = NoEval
    /\ faulty = {}
    /\ session = "anon"
    /\ sim = [virtual_cash |-> 0, current_day |-> 0]
    /\ positions = <<>>
    /\ trades = <<>>
    /\ treq = <<>>

AuditLogin == \E ok \in BOOLEAN : on_login(ok)
AuditLoginFailed == \E ok \in BOOLEAN : on_login_failed(ok)
AuditLogout == \E ok \in BOOLEAN : on_logout(ok)

(* login_required: the views serve an authenticated session only *)
AuditAccept == session = "auth" /\ GovAccept
AuditIgnore == session = "auth" /\ GovIgnore

NextAudit ==
    \/ AuditLogin
    \/ AuditLoginFailed
    \/ AuditLogout
    \/ AuditAccept
    \/ AuditIgnore

SpecAudit == InitAudit /\ [][NextAudit]_vars

(***************************************************************************)
(* SpecSim: trade requests on one simulation, served one after the other   *)
(***************************************************************************)
SimCash == {99 * Cent, 5 * Micro}
SimSymbols == {"aaa", " BBB"}
SimQuantities == {Micro, 2 * Micro}
SimPrices == {Cent \div 2, Micro, 2 * Micro}
Ties == {"even", "up"}

InitSim ==
    /\ cfg \in {c \in Settings : ~c.OPENAI_API_KEY /\ c.AI_GOVERNANCE_REQUIRED
                                 /\ ~c.AI_ALLOW_MANUAL_OVERRIDE}
    /\ portfolio = [id |-> 1, base_currency |-> "ARS"]
    /\ assets = [s \in {"AAA"} |-> "USD"]
    /\ txs = <<>>
    /\ prices = {}
    /\ today = 20
    /\ recs = <<>>
    /\ audit = <<>>
    /\ last = NoOutcome
    /\ served = 0
    /\ req = <<>>
    /\ ev = NoEval
    /\ faulty = {}
    /\ session = "auth"
    /\ sim \in [virtual_cash : SimCash, current_day : {0}]
    /\ positions = <<>>
    /\ trades = <<>>
    /\ treq = <<>>

SimTradeRequest ==
    /\ Len(trades) < MaxTrades
    /\ \E symbol \in SimSymbols, side \in {"BUY", "SELL"}, qty \in SimQuantities,
          px \in SimPrices, ties \in Ties :
          sim_trade(symbol, side, qty, px, ties)

NextSim == SimTradeRequest

SpecSim == InitSim /\ [][NextSim]_vars

(***************************************************************************)
(* SpecRound: the same requests on a simulation whose cash starts at 0.99  *)
(***************************************************************************)
RoundTripCash == 99 * Cent

InitRound == InitSim /\ sim.virtual_cash = RoundTripCash

SpecRound == InitRound /\ [][NextSim]_vars

(***************************************************************************)
(* SpecTrade: trade requests on the same simulation served by concurrent   *)
(* workers.  sim_detail runs in autocommit, without transaction.atomic and *)
(* without select_for_update, so every ORM statement is one step: the      *)
(* Simulation row is read, the position is fetched or created and the      *)
(* check is made on these copies, then the two rows are saved from the     *)
(* copies (BUY: cash then position, SELL: position then cash), then the    *)
(* ticket is inserted.  A write may raise; the request then ends as an     *)
(* error and the writes already made stay.                                 *)
(***************************************************************************)
TradeRequests == 1 .. NumTrades

TradeIdle ==
    [pc |-> "idle", symbol |-> "", side |-> "", qty |-> 0, px |-> 0,
     cash |-> 0, day |-> 0, pos |-> NewPosition]

TradeRest == <<portfolio, assets, txs, prices, today, cfg, faulty, session,
               recs, served, req, ev>>

(* get_object_or_404(Simulation, ...) and the form's cleaned data *)
trade_begin(q, symbol, side, qty, px) ==
    /\ treq[q].pc = "idle"
    /\ treq' = [treq EXCEPT ![q] =
                  [TradeIdle EXCEPT !.pc = "position", !.symbol = SimSym(symbol),
                                    !.side = side, !.qty = qty, !.px = px,
                                    !.cash = sim.virtual_cash, !.day = sim.current_day]]
    /\ UNCHANGED <<TradeRest, sim, positions, trades, audit, last>>

(* get_or_create and the cash / quantity check on the copies *)
trade_position(q) ==
    /\ treq[q].pc = "position"
    /\ LET r   == treq[q]
           Pos == get_or_create(positions, r.symbol)
           pos == Pos[r.symbol]
           rejected == IF r.side = "BUY" THEN r.cash < Mul(r.qty, r.px)
                                         ELSE pos.quantity < r.qty
       IN  /\ positions' = Pos
           /\ treq' = [treq EXCEPT ![q].pos = pos,
                                   ![q].pc = IF rejected THEN "done"
                                             ELSE IF r.side = "BUY" THEN "cash"
                                             ELSE "row"]
           /\ last' = IF rejected
                        THEN Outcome("trade", 0,
                                     IF r.side = "BUY" THEN "insufficient_cash"
                                                       ELSE "insufficient_position", 0, "")
                        ELSE last
    /\ UNCHANGED <<TradeRest, sim, trades, audit>>

(* sim.save(update_fields=["virtual_cash"]) *)
trade_save_cash(q, dbfail, ties) ==
    /\ treq[q].pc = "cash"
    /\ LET r == treq[q]
       IN  IF dbfail
             THEN /\ treq' = [treq EXCEPT ![q].pc = "crashed"]
                  /\ last' = Outcome("trade", 0, "error500", 0, "")
                  /\ sim' = sim
             ELSE /\ sim' = [sim EXCEPT !.virtual_cash =
                                Stored(IF r.side = "BUY" THEN r.cash - Mul(r.qty, r.px)
                                                         ELSE r.cash + Mul(r.qty, r.px),
                                       Cent, ties)]
                  /\ treq' = [treq EXCEPT ![q].pc = IF r.side = "BUY" THEN "row" ELSE "ticket"]
                  /\ last' = last
    /\ UNCHANGED <<TradeRest, positions, trades, audit>>

(* pos.save(update_fields=["quantity", "avg_price", "updated_at"]) *)
trade_save_position(q, dbfail, ties) ==
    /\ treq[q].pc = "row"
    /\ LET r == treq[q]
       IN  IF dbfail
             THEN /\ treq' = [treq EXCEPT ![q].pc = "crashed"]
                  /\ last' = Outcome("trade", 0, "error500", 0, "")
                  /\ positions' = positions
             ELSE /\ positions' = [positions EXCEPT ![r.symbol] =
                                      IF r.side = "BUY" THEN Bought(r.pos, r.qty, r.px, ties)
                                                        ELSE Sold(r.pos, r.qty)]
                  /\ treq' = [treq EXCEPT ![q].pc = IF r.side = "BUY" THEN "ticket" ELSE "cash"]
                  /\ last' = last
    /\ UNCHANGED <<TradeRest, sim, trades, audit>>

(* SimTrade.objects.create, _audit and the success message *)
trade_ticket(q, dbfail) ==
    /\ treq[q].pc = "ticket"
    /\ LET r == treq[q]
       IN  IF dbfail
             THEN /\ treq' = [treq EXCEPT ![q].pc = "crashed"]
                  /\ last' = Outcome("trade", 0, "error500", 0, "")
                  /\ UNCHANGED <<trades, audit>>
             ELSE /\ trades' = Append(trades, SimTrade(r.symbol, r.side, r.qty, r.px, r.day))
                  /\ audit' \in AuditOutcomes(audit, "sim_trade")
                  /\ treq' = [treq EXCEPT ![q].pc = "done"]
                  /\ last' = Outcome("trade", 0, "success", 0, "")
    /\ UNCHANGED <<TradeRest, sim, positions>>

TradeOpeningCash == 7 * Micro

(* the simulation after BUY 2 AAA at 1.00 from cash 7.00 *)
InitTrade ==
    /\ cfg \in {c \in Settings : ~c.OPENAI_API_KEY /\ c.AI_GOVERNANCE_REQUIRED
                                 /\ ~c.AI_ALLOW_MANUAL_OVERRIDE}
    /\ portfolio = [id |-> 1, base_currency |-> "ARS"]
    /\ assets = [s \in {"AAA"} |-> "USD"]
    /\ txs = <<>>
    /\ prices = {}
    /\ today = 20
    /\ recs = <<>>
    /\ audit = <<>>
    /\ last = NoOutcome
    /\ served = 0
    /\ req = <<>>
    /\ ev = NoEval
    /\ faulty = {}
    /\ session = "auth"
    /\ sim = [virtual_cash |-> TradeOpeningCash - 2 * Micro, current_day |-> 0]
    /\ positions = [s \in {"AAA"} |-> [quantity |-> 2 * Micro, avg_price |-> Micro]]
    /\ trades = <<SimTrade("AAA", "BUY", 2 * Micro, Micro, 0)>>
    /\ treq = [q \in TradeRequests |-> TradeIdle]

TradeBegin ==
    \E q \in TradeRequests, side \in {"BUY", "SELL"}, qty \in SimQuantities :
        trade_begin(q, "aaa", side, qty, Micro)
TradePosition == \E q \in TradeRequests : trade_position(q)
TradeSaveCash ==
    \E q \in TradeRequests, dbfail \in BOOLEAN, ties \in Ties : trade_save_cash(q, dbfail, ties)
TradeSavePosition ==
    \E q \in TradeRequests, dbfail \in BOOLEAN, ties \in Ties :
        trade_save_position(q, dbfail, ties)
TradeTicket == \E q \in TradeRequests, dbfail \in BOOLEAN : trade_ticket(q, dbfail)

NextTrade ==
    \/ TradeBegin
    \/ TradePosition
    \/ TradeSaveCash
    \/ TradeSavePosition
    \/ TradeTicket

SpecTrade == InitTrade /\ [][NextTrade]_vars

(***************************************************************************)
(* SpecAdvance: advance requests on a new simulation with cash 5.00, or on *)
(* the same simulation after BUY 1 AAA at 1.00                             *)
(***************************************************************************)
AdvanceDays == {0 - 1, 0, 1, 365, 366}

InitAdvance ==
    /\ cfg \in {c \in Settings : ~c.OPENAI_API_KEY /\ c.AI_GOVERNANCE_REQUIRED
                                 /\ ~c.AI_ALLOW_MANUAL_OVERRIDE}
    /\ portfolio = [id |-> 1, base_currency |-> "ARS"]
    /\ assets = [s \in {"AAA"} |-> "USD"]
    /\ txs = <<>>
    /\ prices = {}
    /\ today = 20
    /\ recs = <<>>
    /\ audit = <<>>
    /\ last = NoOutcome
    /\ served = 0
    /\ req = <<>>
    /\ ev = NoEval
    /\ faulty = {}
    /\ session = "auth"
    /\ treq = <<>>
    /\ \/ /\ sim = [virtual_cash |-> 5 * Micro, current_day |-> 0]
          /\ positions = <<>>
          /\ trades = <<>>
       \/ /\ sim = [virtual_cash |-> 4 * Micro, current_day |-> 0]
          /\ positions = [s \in {"AAA"} |-> Bought(NewPosition, Micro, Micro, "even")]
          /\ trades = <<SimTrade("AAA", "BUY", Micro, Micro, 0)>>

AdvAdvance ==
    \E days \in AdvanceDays :
        /\ sim.current_day + days <= MaxDay
        /\ sim.current_day + days >= 0
        /\ sim_advance(days)

NextAdvance == AdvAdvance

SpecAdvance == InitAdvance /\ [][NextAdvance]_vars

(***************************************************************************)
(* SpecRules: one generate request on a portfolio of up to three symbols.  *)
(* The store is the one left by the transaction form and the price upload: *)
(* per symbol a lot of transactions (quantities in units of 0.000001) and  *)
(* a set of price rows (today is day 20: day 6 is 14 days old, day 5 is    *)
(* 15 days old), and the currency of each asset.                           *)
(***************************************************************************)
Buy(s, q) == <<Tx(s, "BUY", q, 1)>>
Sell(s, q) == <<Tx(s, "SELL", q, 1)>>

(* per symbol: the lots that leave it held, the lots that do not, and the
   price rows loaded for it when it is held *)
RuleLots ==
    << [ held   |-> { Buy("AAA", 6), Buy("AAA", 7), Buy("AAA", 11) },
         other  |-> { <<>>, Buy("AAA", 6) \o Sell("AAA", 6), Sell("AAA", 6),
                      Buy("AAA", 7) \o Sell("AAA", 6), Buy("AAA", 6) \o Sell("AAA", 7),
                      <<Tx("AAA", "DEPOSIT", 6, 1)>> },
         prices |-> { {}, {Price("AAA", 6, 1)}, {Price("AAA", 5, 1)},
                      {Price("AAA", 5, 1), Price("AAA", 6, 1)}, {Price("AAA", 5, 0)} } ],
       [ held   |-> { Buy("BBB", 7), Buy("BBB", 9) },
         other  |-> { <<>>, Sell("BBB", 6) },
         prices |-> { {}, {Price("BBB", 6, 1)}, {Price("BBB", 5, 1)} } ],
       [ held   |-> { Buy("CCC", 6), Buy("CCC", 11) },
         other  |-> { <<>> },
         prices |-> { {}, {Price("CCC", 6, 1)} } ] >>

(* a symbol's transactions and price rows *)
SymScenarios(r) ==
    {[lot |-> l, prices |-> p] : l \in r.held, p \in r.prices}
        \cup {[lot |-> l, prices |-> {}] : l \in r.other}

RuleAssets ==
    { [s \in {"AAA", "BBB", "CCC"} |-> "ARS"],
      [s \in {"AAA", "BBB", "CCC"} |-> IF s = "AAA" THEN "USD" ELSE "ARS"],
      [s \in {"AAA", "BBB", "CCC"} |-> IF s = "AAA" THEN "USD"
                                       ELSE IF s = "BBB" THEN "usd" ELSE "ARS"] }

InitRules ==
    /\ cfg \in {c \in Settings : ~c.OPENAI_API_KEY /\ c.AI_GOVERNANCE_REQUIRED
                                 /\ ~c.AI_ALLOW_MANUAL_OVERRIDE}
    /\ portfolio = [id |-> 1, base_currency |-> "ARS"]
    /\ assets \in RuleAssets
    /\ \E a \in SymScenarios(RuleLots[1]), b \in SymScenarios(RuleLots[2]),
          c \in SymScenarios(RuleLots[3]) :
          /\ txs = a.lot \o b.lot \o c.lot
          /\ prices = a.prices \cup b.prices \cup c.prices
    /\ today = 20
    /\ recs = <<>>
    /\ audit = <<>>
    /\ last = NoOutcome
    /\ served = 0
    /\ req = <<>>
    /\ ev = NoEval
    /\ InitOther

RulesGenerate ==
    /\ served < MaxRuns
    /\ served' = served + 1
    /\ opportunities_generate({})

NextRules == RulesGenerate

SpecRules == InitRules /\ [][NextRules]_vars

(***************************************************************************)
(* SpecFrag: one generate request on a portfolio of 9 to 11 held symbols.  *)
(* The first k symbols hold 0.000002 each, the last one holds fill, the    *)
(* others 0.000040; every price is 1 and fresh, and the first u symbols    *)
(* have no price row.                                                      *)
(***************************************************************************)
FragSymbols == <<"S01", "S02", "S03", "S04", "S05", "S06", "S07", "S08", "S09", "S10", "S11">>

FragTxs(n, k, fill) ==
    [i \in 1 .. n |->
        Tx(FragSymbols[i], "BUY", IF i <= k THEN 2 ELSE IF i = n THEN fill ELSE 40, 1)]

FragPrices(n, u) == {Price(FragSymbols[i], 6, 1) : i \in (u + 1) .. n}

InitFrag ==
    /\ cfg \in {c \in Settings : ~c.OPENAI_API_KEY /\ c.AI_GOVERNANCE_REQUIRED
                                 /\ ~c.AI_ALLOW_MANUAL_OVERRIDE}
    /\ portfolio = [id |-> 1, base_currency |-> "ARS"]
    /\ assets = [s \in {FragSymbols[i] : i \in DOMAIN FragSymbols} |-> "ARS"]
    /\ \E n \in {9, 10, 11}, k \in {4, 5, 6}, fill \in {30, 31, 200}, u \in {0, 1} :
          /\ txs = FragTxs(n, k, fill)
          /\ prices = FragPrices(n, u)
    /\ today = 20
    /\ recs = <<>>
    /\ audit = <<>>
    /\ last = NoOutcome
    /\ served = 0
    /\ req = <<>>
    /\ ev = NoEval
    /\ InitOther

NextFrag == RulesGenerate

SpecFrag == InitFrag /\ [][NextFrag]_vars

(***************************************************************************)
(* SpecDiag: the generate request of views.opportunities in two steps, the *)
(* call of diagnose_generation and the rest of the branch, among accept    *)
(* and ignore requests.  The table also holds an OPEN row of another       *)
(* user's portfolio.  req is the generate request: its position and diag.  *)
(***************************************************************************)
DiagIdle == [pc |-> "idle", diag |-> NULL]

(* diag = diagnose_generation(p) *)
generate_diagnose ==
    /\ req.pc = "idle"
    /\ req' = [pc |-> "diagnosed",
               diag |-> Some(diagnose_generation(portfolio, txs, prices, today, recs))]
    /\ UNCHANGED <<Store, recs, audit, last, ev>>

(* res = generate_recommendations(p), _audit, the message *)
generate_after_diagnose(fails) ==
    /\ req.pc = "diagnosed"
    /\ \E out \in {generate_recommendations(portfolio, assets, txs, prices, today, recs, fails)} :
          /\ recs' = out[1]
          /\ audit' \in AuditOutcomes(audit, "reco_generate")
          /\ last' = Outcome("generate", 0, IF out[2].created > 0 THEN "success" ELSE "warning",
                             out[2].created, out[2].reason)
    /\ req' = [req EXCEPT !.pc = "idle"]
    /\ UNCHANGED <<Store, served, ev>>

OtherRow == NewRec(2, RecoDef(Code("SETUP-EMPTY", "", 2), "MED", "setup"), "OPEN")

(* the rows a request of this user can address *)
OwnRows == {i \in DOMAIN recs : recs[i].portfolio = portfolio.id}

InitDiag ==
    /\ cfg \in {c \in Settings : ~c.OPENAI_API_KEY /\ c.AI_GOVERNANCE_REQUIRED
                                 /\ ~c.AI_ALLOW_MANUAL_OVERRIDE}
    /\ \E sc \in GenScenarios :
          assets = sc.assets /\ txs = sc.txs /\ prices = sc.prices
    /\ portfolio = [id |-> 1, base_currency |-> "ARS"]
    /\ today = 20
    /\ recs \in {<<>>, <<OtherRow>>}
    /\ audit = <<>>
    /\ last = NoOutcome
    /\ served = 0
    /\ req = DiagIdle
    /\ ev = NoEval
    /\ InitOther

DiagDiagnose == Serve /\ generate_diagnose
DiagGenerate == generate_after_diagnose({})
DiagAccept ==
    Serve /\ \E rid \in OwnRows, note \in DedupNotes : opportunities_accept(rid, note)
DiagIgnore ==
    Serve /\ \E rid \in OwnRows, note \in DedupNotes : opportunities_ignore(rid, note)

NextDiag ==
    \/ DiagDiagnose
    \/ DiagGenerate
    \/ DiagAccept
    \/ DiagIgnore

SpecDiag == InitDiag /\ [][NextDiag]_vars

(***************************************************************************)
(* views.portfolio_detail, POST of a valid TransactionForm (the whole      *)
(* request): the row is saved on the portfolio and the event is audited    *)
(***************************************************************************)
portfolio_detail(tx) ==
    /\ txs' = Append(txs, tx)
    /\ audit' \in AuditOutcomes(audit, "tx_create")
    /\ last' = Outcome("tx_create", 0, "success", 0, "")
    /\ UNCHANGED <<portfolio, assets, prices, today, cfg, faulty, session,
                   sim, positions, trades, treq, recs, req, ev>>

(***************************************************************************)
(* SpecHist: the whole life of the table.  AI is configured and governance *)
(* required; the portfolio starts empty with the row of a first generate,  *)
(* and the user enters a transaction, generates, seeds the demo, evaluates *)
(* and decides; every run serves at most MaxSteps requests                 *)
(***************************************************************************)
HistNotes == {NoNote, Note("n", 3)}

HistResponses == {RespOK("ENTER", AI_MIN_SCORE), RespOK("HOLD", 100)}

InitHist ==
    /\ cfg \in {c \in Settings : c.OPENAI_API_KEY /\ c.AI_GOVERNANCE_REQUIRED}
    /\ AfterGenerate

HistServe == served < MaxSteps /\ served' = served + 1

HistTx ==
    HistServe /\ txs = <<>> /\ portfolio_detail(Tx("aaa", "BUY", 5, 1))
HistGenerate ==
    HistServe /\ opportunities_generate({})
HistDemo ==
    HistServe /\ opportunities_demo({})
HistAiEval ==
    HistServe /\ \E resps \in [OpenRows(recs, portfolio.id) -> HistResponses] :
                 opportunities_ai_eval(resps)
HistDbAiEval ==
    HistServe /\ \E resps \in [OpenRows(recs, portfolio.id) -> HistResponses] :
                 opportunities_db_ai_eval(resps)
HistDbAiOne ==
    HistServe /\ \E rid \in DOMAIN recs, r \in HistResponses : opportunities_db_ai_one(rid, r)
HistAccept ==
    HistServe /\ \E rid \in DOMAIN recs, note \in HistNotes : opportunities_accept(rid, note)
HistIgnore ==
    HistServe /\ \E rid \in DOMAIN recs, note \in HistNotes : opportunities_ignore(rid, note)
HistDbAccept ==
    HistServe /\ \E rid \in DOMAIN recs, note \in HistNotes : opportunities_db_accept(rid, note)
HistDbIgnore ==
    HistServe /\ \E rid \in DOMAIN recs, note \in HistNotes : opportunities_db_ignore(rid, note)
HistDbReopen ==
    HistServe /\ \E rid \in DOMAIN recs, note \in HistNotes : opportunities_db_reopen(rid, note)

NextHist ==
    \/ HistTx
    \/ HistGenerate
    \/ HistDemo
    \/ HistAiEval
    \/ HistDbAiEval
    \/ HistDbAiOne
    \/ HistAccept
    \/ HistIgnore
    \/ HistDbAccept
    \/ HistDbIgnore
    \/ HistDbReopen

SpecHist == InitHist /\ [][NextHist]_vars

(***************************************************************************)
(* price_engine.price_for.  Amounts are integers in units of 0.000001.     *)
(* SHA-256 is represented by a mixing function that, like it, is a         *)
(* function of the hashed text alone and separates the texts of the model; *)
(* math.exp by the first terms of its series and math.sqrt by its values   *)
(* on the days of the model, so the prices are approximations of the       *)
(* program's.                                                              *)
(***************************************************************************)
(* the bytes of the symbol, read as a number *)
SymbolBytes(symbol) ==
    CASE symbol = "AAA"  -> 4276545
      [] symbol = "aaa"  -> 6381921
      [] symbol = "BBB"  -> 4342338
      [] symbol = " BBB" -> 541213250
      [] OTHER           -> 0

(* int(sha256(f"{seed}:{symbol}:{day}").hexdigest()[:8], 16) % 1_000_000 *)
_hash_to_unit(seed, symbol, day) ==
    ((SymbolBytes(symbol) % 999983) * 31 + (seed % 999983) * 17 + day * 7919) % Micro

Sqrt(n) == CHOOSE r \in 0 .. n : r * r <= n /\ (r + 1) * (r + 1) > n

Exp(a) == Micro + a + (a * a) \div (2 * Micro)

(* mutant: the symbol is hashed as it was typed *)
price_for_raw(symbol, day, seed, base) ==
    LET u      == _hash_to_unit(seed, symbol, day)
        shock  == 2 * u - Micro
        factor == Exp(Drift * day + (((Vol \div 1000) * shock) \div 1000) * Sqrt(Max2(day, 1)))
    IN  Max2(1, Mul(base, factor))

price_for(symbol, day, seed, base) ==
    LET u      == _hash_to_unit(seed, Strip(Upper(symbol)), day)
        shock  == 2 * u - Micro
        factor == Exp(Drift * day + (((Vol \div 1000) * shock) \div 1000) * Sqrt(Max2(day, 1)))
    IN  Max2(1, Mul(base, factor))

(***************************************************************************)
(* SpecPrice: calls of price_for, recorded in req with their arguments and *)
(* result, made while the simulation advances                              *)
(***************************************************************************)
PriceSymbols == {"aaa", "AAA", " BBB", "BBB"}
PriceDays == {0, 1, 4}
PriceSeeds == {1, 12345}
PriceBases == {100 * Micro, 2 * Micro}

PriceCall(symbol, day, seed, base, out) ==
    [symbol |-> symbol, day |-> day, seed |-> seed, base |-> base, out |-> out]

InitPrice ==
    /\ cfg \in {c \in Settings : ~c.OPENAI_API_KEY /\ c.AI_GOVERNANCE_REQUIRED
                                 /\ ~c.AI_ALLOW_MANUAL_OVERRIDE}
    /\ txs = <<>>
    /\ InitStore

price_call ==
    /\ Len(req) < MaxCalls
    /\ \E symbol \in PriceSymbols, day \in PriceDays, seed \in PriceSeeds, base \in PriceBases :
          req' = Append(req, PriceCall(symbol, day, seed, base,
                                       price_for(symbol, day, seed, base)))
    /\ UNCHANGED <<cfg, portfolio, assets, txs, prices, today, recs, audit, last, served,
                   ev, faulty, session, sim, positions, trades, treq>>

PriceAdvance ==
    /\ sim.current_day < 1
    /\ sim_advance(1)
    /\ UNCHANGED served

NextPrice ==
    \/ price_call
    \/ PriceAdvance

SpecPrice == InitPrice /\ [][NextPrice]_vars

(***************************************************************************)
(* The loop of reco_engine._holdings_snapshot, row by row: the dict after  *)
(* the first k rows of `order`, and the two results filtered from it       *)
(***************************************************************************)
DictGet0(h, sym) == IF sym \in DOMAIN h THEN h[sym] ELSE 0

DictPut(h, sym, v) == [x \in DOMAIN h \cup {sym} |-> IF x = sym THEN v ELSE h[x]]

(* mutant: a SELL never takes a quantity below zero *)
FoldRow_clamped(h, t) ==
    IF t.tx_type = "BUY"
      THEN DictPut(h, NormSym(t.asset), DictGet0(h, NormSym(t.asset)) + t.quantity)
    ELSE IF t.tx_type = "SELL"
      THEN DictPut(h, NormSym(t.asset),
                   Max2(0, DictGet0(h, NormSym(t.asset)) - t.quantity))
    ELSE h

(* one pass of the loop body on the dict h *)
FoldRow(h, t) ==
    IF t.tx_type = "BUY"
      THEN DictPut(h, NormSym(t.asset), DictGet0(h, NormSym(t.asset)) + t.quantity)
    ELSE IF t.tx_type = "SELL"
      THEN DictPut(h, NormSym(t.asset), DictGet0(h, NormSym(t.asset)) - t.quantity)
    ELSE h

RECURSIVE fold_holdings(_, _, _)
fold_holdings(T, order, k) ==
    IF k = 0 THEN <<>>
    ELSE CHOOSE r \in {FoldRow(h, T[order[k]]) : h \in {fold_holdings(T, order, k - 1)}} : TRUE

(* cleaned and sorted(set(neg_symbols)) *)
Cleaned(h) == [s \in {x \in DOMAIN h : h[x] > Epsilon} |-> h[s]]

NegSymbols(h) == {s \in DOMAIN h : h[s] < 0 - Epsilon}

(* the rows of the query, newest first *)
QueryOrder(T) ==
    [k \in 1 .. Cardinality(WindowIdx(T)) |->
        CHOOSE i \in WindowIdx(T) : PosInOrder(T, i) = k - 1]

(***************************************************************************)
(* SpecFold: one snapshot of a portfolio of up to MaxTxs transactions      *)
(* (quantities in units of 0.000001), folded in the order of the query or  *)
(* in any other order of the same rows; req holds the result               *)
(***************************************************************************)
FoldRows ==
    { Tx("aaa", t, q, 1) : t \in {"BUY", "SELL"}, q \in {1, 2} }
      \cup { Tx("aaa", "FEE", 2, 1), Tx("BBB", "BUY", 2, 1), Tx("BBB", "SELL", 2, 1) }

FoldIdle == [pc |-> "idle", order |-> <<>>, holdings |-> <<>>, negative |-> {}]

InitFold ==
    /\ cfg \in {c \in Settings : ~c.OPENAI_API_KEY /\ c.AI_GOVERNANCE_REQUIRED
                                 /\ ~c.AI_ALLOW_MANUAL_OVERRIDE}
    /\ txs \in UNION {[1 .. n -> FoldRows] : n \in 0 .. MaxTxs}
    /\ portfolio = [id |-> 1, base_currency |-> "ARS"]
    /\ assets = [s \in {"AAA", "BBB"} |-> "ARS"]
    /\ prices = {}
    /\ today = 20
    /\ recs = <<>>
    /\ audit = <<>>
    /\ last = NoOutcome
    /\ served = 0
    /\ req = FoldIdle
    /\ ev = NoEval
    /\ InitOther

Orders(T) ==
    {o \in [1 .. Cardinality(WindowIdx(T)) -> WindowIdx(T)] :
        \A i, j \in DOMAIN o : i # j => o[i] # o[j]}

snapshot_call(order) ==
    /\ req.pc = "idle"
    /\ \E h \in {fold_holdings(txs, order, Len(order))} :
          req' = [pc |-> "done", order |-> order,
                  holdings |-> Cleaned(h), negative |-> NegSymbols(h)]
    /\ UNCHANGED <<cfg, portfolio, assets, txs, prices, today, recs, audit, last, served,
                   ev, faulty, session, sim, positions, trades, treq>>

FoldSnapshot == \E order \in Orders(txs) : snapshot_call(order)

NextFold == FoldSnapshot

SpecFold == InitFold /\ [][NextFold]_vars

(***************************************************************************)
(* SpecScope: AI evaluation of a table of seven rows.  The user's rows are *)
(* the finding of the once empty portfolio, the three demo rows and the    *)
(* two findings of the holding without price, created in this order; the   *)
(* newest of them may have been ignored.  The other row belongs to another *)
(* portfolio.  AI is configured.                                           *)
(***************************************************************************)
ScopeTxs == <<Tx("aaa", "BUY", 5, 1)>>

ScopeDefs ==
    <<RecoDef(Code("SETUP-EMPTY", "", 1), "MED", "setup")>>
      \o demo_defs(1)
      \o build_recos([id |-> 1, base_currency |-> "ARS"], [s \in {"AAA"} |-> "USD"],
                     ScopeTxs, {}, 20)

(* the user's rows, the one at index `ignored` (0: none) IGNORED with a note *)
ScopeRows(ignored) ==
    [k \in DOMAIN ScopeDefs |->
        IF k = ignored
          THEN WithNote(NewRec(1, ScopeDefs[k], "IGNORED"), Note("n", 3))
          ELSE NewRec(1, ScopeDefs[k], "OPEN")]

ScopeResponses == {RespOK("ENTER", AI_MIN_SCORE), RespRaise}

InitScope ==
    /\ cfg \in {c \in Settings : GateOn(c)}
    /\ portfolio = [id |-> 1, base_currency |-> "ARS"]
    /\ assets = [s \in {"AAA"} |-> "USD"]
    /\ txs = ScopeTxs
    /\ prices = {}
    /\ today = 20
    /\ \E ignored \in {0, Len(ScopeDefs)} :
          recs \in {<<OtherRow>> \o ScopeRows(ignored), ScopeRows(ignored) \o <<OtherRow>>}
    /\ audit = <<>>
    /\ last = NoOutcome
    /\ served = 0
    /\ req = <<>>
    /\ ev = NoEval
    /\ InitOther

(* the service answers every row of the batch, or raises on the row `bad` *)
ScopeAnswers ==
    { [i \in OpenRows(recs, portfolio.id) |->
          IF i = bad THEN RespRaise ELSE RespOK("ENTER", AI_MIN_SCORE)] :
      bad \in OpenRows(recs, portfolio.id) \cup {0} }

ScopeAiEval ==
    /\ \E resps \in ScopeAnswers : opportunities_ai_eval(resps)
    /\ UNCHANGED served
ScopeDbAiEval ==
    /\ \E resps \in ScopeAnswers : opportunities_db_ai_eval(resps)
    /\ UNCHANGED served
ScopeDbAiOne ==
    /\ \E rid \in OwnRows, r \in ScopeResponses : opportunities_db_ai_one(rid, r)
    /\ UNCHANGED served

NextScope ==
    \/ ScopeAiEval
    \/ ScopeDbAiEval
    \/ ScopeDbAiOne

SpecScope == InitScope /\ [][NextScope]_vars

(***************************************************************************)
(* SpecLedger: trade and advance requests on the simulation of SpecRound,  *)
(* served one after the other                                              *)
(***************************************************************************)
LedgerDays == {0 - 1, 0, 365, 366}

LedgerAdvance ==
    \E days \in LedgerDays :
        /\ sim.current_day + days <= MaxDay
        /\ sim_advance(days)

NextLedger ==
    \/ SimTradeRequest
    \/ LedgerAdvance

SpecLedger == InitRound /\ [][NextLedger]_vars

(***************************************************************************)
(* Properties                                                              *)
(***************************************************************************)
SameKey(a, b) == a.portfolio = b.portfolio /\ a.code = b.code

(* C1: in every reachable state there is at most one OPEN Recommendation   *)
(* per (portfolio, code)                                                   *)
C1_DedupInvariant ==
    \A i, j \in DOMAIN recs :
        (i # j /\ SameKey(recs[i], recs[j]) /\ recs[i].status = "OPEN")
            => recs[j].status # "OPEN"

(* C2: once the interleaved generate requests have all finished, at most   *)
(* one OPEN row per (portfolio, code) is persisted                         *)
C2_ConcurrentGeneration ==
    (\A q \in DOMAIN req : req[q].pc = "done")
        => \A i \in DOMAIN recs :
              Cardinality({j \in DOMAIN recs :
                              SameKey(recs[i], recs[j]) /\ recs[j].status = "OPEN"}) <= 1

(* C3: a generate request creates no row for a code that is already OPEN;  *)
(* when every candidate code is already OPEN it returns created = 0 and    *)
(* leaves the table as it was                                              *)
OpenBefore(R, row) ==
    \E i \in DOMAIN R : SameKey(R[i], row) /\ R[i].status = "OPEN"

C3_IdempotentGeneration ==
    [][ last'.op = "generate" =>
          /\ \A k \in (Len(recs) + 1) .. Len(recs') : ~OpenBefore(recs, recs'[k])
          /\ (\A k \in DOMAIN build_recos(portfolio, assets, txs, prices, today) :
                 OpenBefore(recs, [portfolio |-> portfolio.id,
                                   code |-> build_recos(portfolio, assets, txs, prices, today)[k].code]))
               => (last'.created = 0 /\ recs' = recs) ]_vars

C3_Witness ==
    /\ last.op = "generate"
    /\ last.created = 0
    /\ served = 2
    /\ Len(recs) = 2
    /\ \A i \in DOMAIN recs : recs[i].status = "OPEN"

(* C4 (as amended): with the gate active, an accept (inbox or database     *)
(* screen) succeeds and sets ACCEPTED exactly when the row's ai_action,    *)
(* compared without regard to letter case, is ENTER and its ai_score is    *)
(* present and >= AI_MIN_SCORE; otherwise it is rejected                   *)
AcceptOps == {"accept", "db_accept"}

PassesGate(r) ==
    /\ Upper(r.ai_action) = "ENTER"
    /\ r.ai_score # <<>>
    /\ r.ai_score[1] >= AI_MIN_SCORE

C5_BlockedAcceptChangesNothing ==
    [][ last'.result = "blocked_by_ai" => (recs' = recs /\ audit' = audit) ]_vars

C5_Witness ==
    /\ last.result = "blocked_by_ai"
    /\ last.op = "accept"
    /\ recs[last.rid].status = "OPEN"
    /\ recs[last.rid].decision_note.len > 0
    /\ recs[last.rid].ai_score # <<>>

(* C6: the status of a Recommendation only ever changes OPEN -> ACCEPTED,  *)
(* OPEN -> IGNORED, ACCEPTED -> OPEN or IGNORED -> OPEN                    *)
C6_LifecycleTransitions ==
    [][ \A i \in DOMAIN recs :
           recs'[i].status # recs[i].status =>
               <<recs[i].status, recs'[i].status>> \in
                   { <<"OPEN", "ACCEPTED">>, <<"OPEN", "IGNORED">>,
                     <<"ACCEPTED", "OPEN">>, <<"IGNORED", "OPEN">> } ]_vars

(* C7: when the manual override is set, or no API key is configured, or    *)
(* governance is not required, every accept request ends with the row      *)
(* ACCEPTED, whatever its AI fields                                        *)
Bypass(c) ==
    c.AI_ALLOW_MANUAL_OVERRIDE \/ ~c.OPENAI_API_KEY \/ ~c.AI_GOVERNANCE_REQUIRED

C7_GateBypassedByConfiguration ==
    [][ (Bypass(cfg) /\ last'.op \in AcceptOps) =>
            /\ last'.result = "success"
            /\ recs'[last'.rid].status = "ACCEPTED" ]_vars

C7_Witness ==
    /\ cfg.OPENAI_API_KEY /\ cfg.AI_GOVERNANCE_REQUIRED /\ cfg.AI_ALLOW_MANUAL_OVERRIDE
    /\ last.op = "accept"
    /\ last.result = "success"
    /\ recs[last.rid].status = "ACCEPTED"
    /\ recs[last.rid].ai_score = <<>>

(* C8: under every configuration and whatever the AI fields, an ignore     *)
(* request ends with the row IGNORED and a reopen request with the row OPEN *)
C8_IgnoreReopenUngoverned ==
    [][ /\ last'.op \in {"ignore", "db_ignore"} =>
              (last'.result = "success" /\ recs'[last'.rid].status = "IGNORED")
        /\ last'.op = "db_reopen" =>
              (last'.result = "success" /\ recs'[last'.rid].status = "OPEN") ]_vars

C8_Witness ==
    /\ GateOn(cfg)
    /\ last.op = "db_reopen"
    /\ recs[last.rid].status = "OPEN"
    /\ recs[last.rid].ai_score = <<>>
    /\ recs[last.rid].decision_note.len > 0

(* C9: evaluate_recommendation never raises, and whenever the call fails   *)
(* (the service raises, no credential, no SDK, output that is not a JSON   *)
(* object, a missing or wrongly typed field) it returns NEEDS_DATA with    *)
(* score 0 and confidence 0                                                *)
WellFormed(r) ==
    /\ ~r.raises
    /\ r.body = "object"
    /\ r.score.t = "int" /\ r.confidence.t = "int"
    /\ r.action.t = "str" /\ r.summary.t = "str" /\ r.reasons.t = "object"

C9_AdapterNeverRaises ==
    ev.done =>
        /\ ~ev.out.raised
        /\ (~ev.key \/ ~ev.sdk \/ ~WellFormed(ev.resp)) =>
              (ev.out.action = "NEEDS_DATA" /\ ev.out.score = 0 /\ ev.out.confidence = 0)

(* C10: without a credential evaluate_recommendation returns NEEDS_DATA,   *)
(* score 0, confidence 0 and the missing-key reason, does not call the     *)
(* service and does not raise                                              *)
C10_NoCredentialFallback ==
    (ev.done /\ ~ev.key) =>
        /\ ~ev.out.raised
        /\ ~ev.out.called
        /\ ev.out.action = "NEEDS_DATA"
        /\ ev.out.score = 0
        /\ ev.out.confidence = 0
        /\ ev.out.reasons = "missing_openai_api_key"

C10_Witness ==
    /\ ev.done
    /\ ~ev.key
    /\ ev.sdk
    /\ ev.resp = RespRaise
    /\ ev.out.action = "NEEDS_DATA"

(* C11: every result that evaluate_recommendation returns has score and    *)
(* confidence in 0..100 and an action among ENTER, EXIT, HOLD, IGNORE and  *)
(* NEEDS_DATA                                                              *)
AIActions == {"ENTER", "EXIT", "HOLD", "IGNORE", "NEEDS_DATA"}

C11_BoundedAIResult ==
    (ev.done /\ ~ev.out.raised) =>
        /\ ev.out.score \in 0 .. 100
        /\ ev.out.confidence \in 0 .. 100
        /\ ev.out.action \in AIActions

(* C12: when the INSERT of one candidate raises, generate_recommendations  *)
(* still creates every other candidate that is not already OPEN, keeps the *)
(* existing rows, does not fail, and returns as created the number of rows *)
(* it added                                                                *)
Candidates == build_recos(portfolio, assets, txs, prices, today)

CandKey(k) == [portfolio |-> portfolio.id, code |-> Candidates[k].code]

C12_FailureContainment ==
    [][ last'.op = "generate" =>
          /\ last'.result \in {"success", "warning"}
          /\ Len(recs') >= Len(recs)
          /\ SubSeq(recs', 1, Len(recs)) = recs
          /\ last'.created = Len(recs') - Len(recs)
          /\ \A k \in DOMAIN Candidates :
                (Candidates[k].code \notin faulty /\ ~OpenBefore(recs, CandKey(k)))
                    => \E j \in (Len(recs) + 1) .. Len(recs') :
                          /\ recs'[j].code = Candidates[k].code
                          /\ recs'[j].status = "OPEN" ]_vars

C12_Witness ==
    /\ last.op = "generate"
    /\ last.created = 1
    /\ faulty = {Code("PRICES-MISSING", "", 1)}
    /\ Len(recs) = 1
    /\ recs[1].code = Code("PRICES-ALLMISSING", "", 1)
    /\ recs[1].status = "OPEN"

(* C14: whenever a generate returns created = 0 its reason is non-empty,   *)
(* says "no conditions" exactly when there was no candidate, and reports   *)
(* errors exactly when the INSERT of some candidate actually raised        *)
CreationRaised ==
    \E k \in DOMAIN Candidates :
        Candidates[k].code \in faulty /\ ~OpenBefore(recs, CandKey(k))

C14_ZeroResultDiagnosis ==
    [][ (last'.op = "generate" /\ last'.created = 0) =>
          /\ last'.reason # ""
          /\ (last'.reason = "no_conditions") <=> (Candidates = <<>>)
          /\ (last'.reason = "probably_open_duplicates+errors") <=> CreationRaised ]_vars

(* C13: a batch AI evaluation request never aborts: whatever happens to    *)
(* one item, the request ends with its tally message                       *)
BatchOps == {"ai_eval", "db_ai_eval"}

C13_BatchContainment ==
    [][ last'.op \in BatchOps => last'.result = "success" ]_vars

(* C15: a failure to record the AuditEvent never changes the outcome of    *)
(* the operation: a login opens the session, a failed login is answered as *)
(* invalid, a logout closes the session and an accept or ignore succeeds,  *)
(* whether or not the audit row was written                                *)
C15_AuditNeverAffectsOperation ==
    [][ /\ last'.op = "login" => (last'.result = "success" /\ session' = "auth")
        /\ last'.op = "login_failed" => (last'.result = "invalid" /\ session' = session)
        /\ last'.op = "logout" => (last'.result = "success" /\ session' = "anon")
        /\ last'.op \in {"accept", "ignore"} =>
              (last'.result = "success" /\ recs'[last'.rid].status # "OPEN") ]_vars

(* C16: a BUY rejected for insufficient cash leaves virtual cash, the set  *)
(* of SimPosition rows with their fields, and the SimTrade ledger as they  *)
(* were                                                                    *)
C16_RejectedBuyMutatesNothing ==
    [][ last'.result = "insufficient_cash" =>
          (sim' = sim /\ positions' = positions /\ trades' = trades) ]_vars

(* C17: a SELL rejected for insufficient position leaves virtual cash, the *)
(* SimPosition rows and the SimTrade ledger as they were                   *)
C17_RejectedSellMutatesNothing ==
    [][ last'.result = "insufficient_position" =>
          (sim' = sim /\ positions' = positions /\ trades' = trades) ]_vars

(* C18: when the ledger of a simulation that started with cash C and no    *)
(* position consists of a BUY of q at p followed by a SELL of q at p of    *)
(* the same symbol, virtual cash is C again and the position has quantity  *)
(* 0 and avg_price 0                                                       *)
C18_RoundTrip ==
    ( /\ Len(trades) = 2
      /\ trades[1].side = "BUY"
      /\ trades[2] = [trades[1] EXCEPT !.side = "SELL"] )
        => /\ sim.virtual_cash = RoundTripCash
           /\ positions[trades[1].symbol] = NewPosition

(* C20 (as amended): a successful BUY adds qty to the quantity and sets    *)
(* avg_price to price when the prior quantity is 0, and otherwise to       *)
(* (old_qty*old_avg + qty*price)/(old_qty+qty) rounded to the 6 decimal    *)
(* places of the column; a successful SELL subtracts qty and keeps         *)
(* avg_price, unless the resulting quantity is <= 0, and then quantity and *)
(* avg_price are both 0                                                    *)
Ticket == trades'[Len(trades')]

OldPosition ==
    IF Ticket.symbol \in DOMAIN positions THEN positions[Ticket.symbol] ELSE NewPosition

Abs(x) == IF x >= 0 THEN x ELSE 0 - x

(* distance between avg * (old_qty + qty) and old_qty*old_avg + qty*price *)
AvgError(avg) ==
    Abs(Mul(OldPosition.quantity + Ticket.quantity, avg)
          - (Mul(OldPosition.quantity, OldPosition.avg_price)
               + Mul(Ticket.quantity, Ticket.price)))

SellKeepsAverage ==
    Ticket.side = "SELL" =>
        IF OldPosition.quantity - Ticket.quantity <= 0
          THEN positions'[Ticket.symbol] = NewPosition
          ELSE /\ positions'[Ticket.symbol].quantity = OldPosition.quantity - Ticket.quantity
               /\ positions'[Ticket.symbol].avg_price = OldPosition.avg_price

Quiescent == \A q \in DOMAIN treq : treq[q].pc \in {"idle", "done", "crashed"}

CashFlow ==
    [i \in DOMAIN trades |->
        IF trades[i].side = "BUY" THEN 0 - Mul(trades[i].quantity, trades[i].price)
                                  ELSE Mul(trades[i].quantity, trades[i].price)]

QtyFlow ==
    [i \in DOMAIN trades |->
        IF trades[i].side = "BUY" THEN trades[i].quantity ELSE 0 - trades[i].quantity]

C19_TradeAtomicity ==
    Quiescent =>
        /\ sim.virtual_cash = TradeOpeningCash + SumOver(DOMAIN trades, CashFlow)
        /\ \A sym \in DOMAIN positions :
              positions[sym].quantity =
                  SumOver({i \in DOMAIN trades : trades[i].symbol = sym}, QtyFlow)

(* C21: an advance request with days in 1..365 adds exactly days to        *)
(* current_day and leaves virtual cash, the positions and the ledger as    *)
(* they were; a request with days outside 1..365 changes none of them      *)
C21_AdvanceOnlyMovesDay ==
    [][ last'.op = "advance" =>
          /\ sim'.virtual_cash = sim.virtual_cash
          /\ positions' = positions
          /\ trades' = trades
          /\ sim'.current_day =
                IF last'.created >= 1 /\ last'.created <= 365
                  THEN sim.current_day + last'.created
                  ELSE sim.current_day ]_vars

C21_Witness ==
    /\ last = Outcome("advance", 0, "success", 365, "")
    /\ sim.current_day = 366
    /\ Len(trades) = 1
    /\ "AAA" \in DOMAIN positions /\ positions["AAA"].quantity = Micro

(***************************************************************************)
(* The rules of build_recos, read off the rows a generate request stored   *)
(* for a portfolio that had no recommendation.  V: the value of each       *)
(* priced held symbol, tot: their sum.                                     *)
(***************************************************************************)
Ran == last.op = "generate"

(* the findings of one rule *)
Rows(rule) == {i \in DOMAIN recs : recs[i].code[1] = rule}

Symbols == {NormSym(txs[i].asset) : i \in {k \in DOMAIN txs : txs[k].tx_type \in {"BUY", "SELL"}}}

Held == {s \in Symbols : NetQty(txs, s) > 1}

PricedHeld == {s \in Held : PriceRows(prices, s) # {}}

Val == [s \in PricedHeld |-> NetQty(txs, s) * LatestPrice(prices, s).close]

Diag == diagnose_generation(portfolio, txs, prices, today, recs)

(* C22: for a portfolio with no transaction the run produces exactly one   *)
(* finding, SETUP-EMPTY-<id> of severity MED, and diagnose_generation      *)
(* reports tx_count = 0                                                    *)
C22_EmptyPortfolio ==
    (Ran /\ txs = <<>>) =>
        /\ Len(recs) = 1
        /\ recs[1].code = Code("SETUP-EMPTY", "", portfolio.id)
        /\ recs[1].severity = "MED"
        /\ Diag.tx_count = 0

C22_Witness ==
    /\ Ran
    /\ txs = <<>>
    /\ Len(recs) = 1
    /\ recs[1].code = Code("SETUP-EMPTY", "", 1) /\ recs[1].severity = "MED"
    /\ last.created = 1

(* C23: on a valuable portfolio a HIGH concentration finding is emitted    *)
(* iff the largest value is at least 55% of the total, a MED one iff it is *)
(* at least 35% and less than 55%, none iff it is less than 35%; no run    *)
(* emits more than one concentration finding                               *)
TopAtLeast(V, tot, pct) == \E s \in DOMAIN V : 100 * V[s] >= pct * tot

Concentration(V, tot) ==
    /\ Cardinality(Rows("CONC-HIGH")) + Cardinality(Rows("CONC-MED")) <= 1
    /\ (Held # {} /\ tot > 0) =>
          /\ Rows("CONC-HIGH") # {} <=> TopAtLeast(V, tot, 55)
          /\ Rows("CONC-MED") # {} <=> (TopAtLeast(V, tot, 35) /\ ~TopAtLeast(V, tot, 55))
          /\ \A i \in Rows("CONC-HIGH") : recs[i].severity = "HIGH"
          /\ \A i \in Rows("CONC-MED") : recs[i].severity = "MED"

C24_UnvaluableStops ==
    (Ran /\ Held # {} /\ SumOver(PricedHeld, Val) <= 0) =>
        /\ Cardinality(Rows("PRICES-ALLMISSING")) = 1
        /\ \A i \in Rows("PRICES-ALLMISSING") : recs[i].severity = "MED"
        /\ \A rule \in {"CONC-HIGH", "CONC-MED", "FX", "PRICES-STALE", "CLEANUP-SMALL"} :
              Rows(rule) = {}

(* a held symbol in another currency whose only price is 0 and 15 days old *)
C24_Witness ==
    /\ Ran
    /\ Len(recs) = 1
    /\ Rows("PRICES-ALLMISSING") # {}
    /\ prices = {Price("AAA", 5, 0)}
    /\ assets["AAA"] = "USD"
    /\ Held = {"AAA"}

(* C25: a HIGH DATA-NEG finding is emitted iff some symbol has a net       *)
(* quantity below -0.000001, and then exactly one, whose code names the    *)
(* smallest such symbol in sorted order and the portfolio id               *)
Negative == {s \in Symbols : NetQty(txs, s) < 0 - 1}

NegativePosition(N) ==
    /\ N = {} => Rows("DATA-NEG") = {}
    /\ N # {} =>
          /\ Cardinality(Rows("DATA-NEG")) = 1
          /\ \A i \in Rows("DATA-NEG") :
                /\ recs[i].severity = "HIGH"
                /\ recs[i].code[2] \in N
                /\ \A t \in N : SymRank(recs[i].code[2]) <= SymRank(t)
                /\ recs[i].code[3] = portfolio.id

C25_NegativePosition == Ran => \A N \in {Negative} : NegativePosition(N)

(* two negative symbols, the finding stored names AAA *)
C25_Witness ==
    /\ Ran
    /\ \E i \in Rows("DATA-NEG") : recs[i].code = Code("DATA-NEG", "AAA", 1)
    /\ Negative = {"AAA", "BBB"}

(* C26: exactly one LOW SETUP-NOHOLD finding is emitted iff the portfolio  *)
(* has a transaction and no symbol with net quantity above 0.000001; it    *)
(* comes with the DATA-NEG finding when a symbol is negative and never     *)
(* with SETUP-EMPTY                                                        *)
C26_NoOpenPositions ==
    Ran =>
        /\ Rows("SETUP-NOHOLD") # {} <=> (txs # <<>> /\ Held = {})
        /\ Cardinality(Rows("SETUP-NOHOLD")) <= 1
        /\ \A i \in Rows("SETUP-NOHOLD") : recs[i].severity = "LOW"
        /\ (Rows("SETUP-NOHOLD") # {} /\ Negative # {}) => Rows("DATA-NEG") # {}
        /\ ~(Rows("SETUP-NOHOLD") # {} /\ Rows("SETUP-EMPTY") # {})

(* a net quantity of exactly 0.000001 is not held; a negative symbol *)
C26_Witness ==
    /\ Ran
    /\ Rows("SETUP-NOHOLD") # {}
    /\ Rows("DATA-NEG") # {}
    /\ "AAA" \in Symbols /\ NetQty(txs, "AAA") = 1
    /\ Negative = {"BBB"}

(* C27: on a valuable portfolio one MED FX finding is emitted iff the      *)
(* currency other than the base with the largest value holds at least 25%  *)
(* of the total; it names that currency, never the base                    *)
CurValue(V, cur) == SumOver({s \in DOMAIN V : Currency(assets, s) = cur}, V)

CurrencyExposure(V, tot, F) ==
    (Held # {} /\ tot > 0) =>
        /\ Cardinality(Rows("FX")) <= 1
        /\ Rows("FX") # {} <=> \E cur \in F : 100 * CurValue(V, cur) >= 25 * tot
        /\ \A i \in Rows("FX") :
              /\ recs[i].severity = "MED"
              /\ recs[i].code[2] \in F
              /\ \A cur \in F : CurValue(V, cur) <= CurValue(V, recs[i].code[2])

StaleHeld == {s \in PricedHeld : \A r \in PriceRows(prices, s) : today - r.date > 14}

StalePrice(tot, S) ==
    /\ Diag.prices_stale_gt_14d = Cardinality(S)
    /\ (Held # {} /\ tot > 0) =>
          /\ Rows("PRICES-STALE") # {} <=> S # {}
          /\ Cardinality(Rows("PRICES-STALE")) <= 1
          /\ \A i \in Rows("PRICES-STALE") : recs[i].severity = "LOW"

C28_StalePrice == Ran => \A S \in {StaleHeld} : StalePrice(SumOver(PricedHeld, Val), S)

(* AAA's latest price is 15 days old, BBB's exactly 14 *)
C28_Witness ==
    /\ Ran
    /\ Rows("PRICES-STALE") # {}
    /\ prices = {Price("AAA", 5, 1), Price("BBB", 6, 1)}
    /\ Held = {"AAA", "BBB"}
    /\ StaleHeld = {"AAA"}

(* C29: one LOW CLEANUP-SMALL finding is emitted iff at least 10 symbols   *)
(* are held and at least 5 held symbols each have a value below 1% of the  *)
(* total value (a held symbol without a price has no value and no weight)  *)
Fragmentation(V, tot) ==
    /\ Rows("CLEANUP-SMALL") # {} <=>
          /\ Cardinality(Held) >= 10
          /\ Cardinality({s \in DOMAIN V : 100 * V[s] < tot}) >= 5
    /\ Cardinality(Rows("CLEANUP-SMALL")) <= 1
    /\ \A i \in Rows("CLEANUP-SMALL") : recs[i].severity = "LOW"

C29_Fragmentation == Ran => \A V \in {Val} : Fragmentation(V, SumOver(DOMAIN V, V))

(* exactly 10 held symbols, exactly 5 of them below 1% *)
C29_Witness ==
    /\ Ran
    /\ Rows("CLEANUP-SMALL") # {}
    /\ Len(txs) = 10
    /\ \A V \in {Val} :
          /\ DOMAIN V = Held
          /\ Cardinality({s \in DOMAIN V : 100 * V[s] < SumOver(DOMAIN V, V)}) = 5

(* C30: a call of diagnose_generation leaves the transactions, the prices  *)
(* and every recommendation as they were, and its open_opportunities is    *)
(* the number of OPEN recommendations of the portfolio at that time        *)
C30_DiagnoseReadOnly ==
    [][ (req.pc = "idle" /\ req'.pc = "diagnosed") =>
          /\ txs' = txs
          /\ prices' = prices
          /\ recs' = recs
          /\ req'.diag[1].open_opportunities =
                Cardinality({i \in DOMAIN recs : /\ recs[i].portfolio = portfolio.id
                                                  /\ recs[i].status = "OPEN"}) ]_vars

(* a second call, with an OPEN row, a decided row and another user's row *)
C30_Witness ==
    /\ req.pc = "diagnosed"
    /\ req.diag[1].open_opportunities = 1
    /\ \E i \in DOMAIN recs : recs[i].portfolio = 1 /\ recs[i].status = "IGNORED"
    /\ \E i \in DOMAIN recs : recs[i].portfolio = 2 /\ recs[i].status = "OPEN"

(* C31: no stored decision_note is ever longer than 240 characters; a step *)
(* changes a row's note only as a successful accept, ignore or reopen of   *)
(* that row, and the note it stores is not empty                           *)
NoteOps == {"accept", "ignore", "db_accept", "db_ignore", "db_reopen"}

C31_DecisionNoteBounded ==
    /\ [](\A i \in DOMAIN recs : recs[i].decision_note.len <= NoteMax)
    /\ [][ \A i \in DOMAIN recs :
              recs'[i].decision_note # recs[i].decision_note =>
                  /\ last'.op \in NoteOps
                  /\ last'.result = "success"
                  /\ last'.rid = i
                  /\ recs'[i].decision_note.len > 0
                  /\ recs'[i].decision_note.len <= NoteMax ]_vars

(* a note of 241 characters was supplied on a reopen and 240 were stored *)
C31_Witness ==
    /\ last.op = "db_reopen"
    /\ recs[last.rid].status = "OPEN"
    /\ recs[last.rid].decision_note = Note("long", NoteMax)

(* C32: only an AI evaluation writes the six AI fields: every other        *)
(* request (entering a transaction, generate, demo seeding, accept, ignore *)
(* and reopen) leaves them as they were on every existing row, a row is    *)
(* created without score, confidence and evaluation time, and a row has a  *)
(* score only once it has been evaluated                                   *)
EvalOps == {"ai_eval", "db_ai_eval", "db_ai_one"}

AIFields(r) ==
    <<r.ai_score, r.ai_confidence, r.ai_action, r.ai_summary, r.ai_reasons, r.ai_evaluated_at>>

C32_AIFieldsWrittenByEvaluation ==
    /\ [](\A i \in DOMAIN recs : recs[i].ai_score # NULL => recs[i].ai_evaluated_at # NULL)
    /\ [][ /\ last'.op \notin EvalOps =>
                 \A i \in DOMAIN recs : AIFields(recs'[i]) = AIFields(recs[i])
           /\ \A k \in (Len(recs) + 1) .. Len(recs') :
                 /\ last'.op \in {"generate", "demo"}
                 /\ recs'[k].ai_score = NULL
                 /\ recs'[k].ai_confidence = NULL
                 /\ recs'[k].ai_evaluated_at = NULL ]_vars

(* a generate created two rows next to a row that had been evaluated      *)
C32_Witness ==
    /\ last.op = "generate"
    /\ last.created = 2
    /\ recs[1].status = "OPEN"
    /\ AIFields(recs[1]) # AIFields(recs[Len(recs)])
    /\ recs[1].ai_score = Some(100)
    /\ recs[Len(recs)].ai_score = NULL

(* C33: two calls of price_for with the same day, seed and base and with   *)
(* symbols that are equal once case and surrounding whitespace are set     *)
(* aside return the same price, wherever in the run they are made, and     *)
(* every price is positive                                                 *)
SameArguments(a, b) ==
    /\ Upper(Strip(a.symbol)) = Upper(Strip(b.symbol))
    /\ a.day = b.day
    /\ a.seed = b.seed
    /\ a.base = b.base

QtyOf(T, s, tx_type) ==
    SumOver({i \in DOMAIN T : NormSym(T[i].asset) = s /\ T[i].tx_type = tx_type},
            [i \in DOMAIN T |-> T[i].quantity])

Net(T, s) == QtyOf(T, s, "BUY") - QtyOf(T, s, "SELL")

TxSymbols(T) == {NormSym(T[i].asset) : i \in DOMAIN T}

C34_HoldingsFold ==
    (req.pc = "done" /\ Len(txs) <= TxWindow) =>
        /\ DOMAIN req.holdings = {s \in TxSymbols(txs) : Net(txs, s) > Epsilon}
        /\ \A s \in DOMAIN req.holdings : req.holdings[s] = Net(txs, s)
        /\ req.negative = {s \in TxSymbols(txs) : Net(txs, s) < 0 - Epsilon}
        /\ DOMAIN req.holdings = _holdings_snapshot(txs).holdings
        /\ req.negative = _holdings_snapshot(txs).negative

(* folded oldest first: a FEE row, a symbol held and a symbol sold short   *)
C34_Witness ==
    /\ req.pc = "done"
    /\ Len(txs) = 3
    /\ req.order = <<1, 2, 3>>
    /\ req.order # QueryOrder(txs)
    /\ txs[1].tx_type = "SELL"
    /\ \E i \in DOMAIN txs : txs[i].tx_type = "FEE" /\ txs[i].asset = "aaa"
    /\ DOMAIN req.holdings = {"AAA"}
    /\ req.holdings["AAA"] = 2
    /\ req.negative = {"BBB"}

(* C35: a generate request only appends: every row that existed keeps all  *)
(* its fields (an OPEN row whose rule no longer fires stays OPEN), no row  *)
(* is removed, and the rows it adds are OPEN and as many as it reports     *)
C35_GenerationOnlyAppends ==
    [][ last'.op = "generate" =>
          /\ Len(recs') = Len(recs) + last'.created
          /\ \A i \in DOMAIN recs : recs'[i] = recs[i]
          /\ \A k \in (Len(recs) + 1) .. Len(recs') :
                recs'[k].status = "OPEN" /\ recs'[k].portfolio = portfolio.id ]_vars

(* the row of the empty portfolio, reopened with a note, is still OPEN     *)
(* after a transaction was entered and a generate created two other rows   *)
C35_Witness ==
    /\ last.op = "generate"
    /\ last.created = 2
    /\ txs # <<>>
    /\ recs[1].code = Code("SETUP-EMPTY", "", 1)
    /\ recs[1].status = "OPEN"
    /\ recs[1].decision_note.len > 0
    /\ \A k \in 2 .. Len(recs) : recs[k].code # recs[1].code

(* C36: when a generate request runs on a portfolio for which a rule fires *)
(* and the only rows with that rule's code are ACCEPTED or IGNORED, it     *)
(* creates a new OPEN row with the code, counts it in created and leaves   *)
(* the closed rows as they were                                            *)
Closed(R, code) ==
    /\ \E i \in DOMAIN R : R[i].code = code /\ R[i].status \in {"ACCEPTED", "IGNORED"}
    /\ \A i \in DOMAIN R : R[i].code = code => R[i].status # "OPEN"

C36_ClosingDoesNotSuppress ==
    [][ last'.op = "generate" =>
          \A cands \in {build_recos(portfolio, assets, txs, prices, today)} :
              \A c \in DOMAIN cands :
                  Closed(recs, cands[c].code) =>
                      /\ last'.created >= 1
                      /\ \E k \in (Len(recs) + 1) .. Len(recs') :
                            recs'[k].code = cands[c].code /\ recs'[k].status = "OPEN"
                      /\ \A i \in DOMAIN recs :
                            recs[i].code = cands[c].code => recs'[i] = recs[i] ]_vars

(* the first row was accepted, and the next generate created it again      *)
C36_Witness ==
    /\ last.op = "generate"
    /\ last.created = 1
    /\ Len(recs) = 2
    /\ recs[1].status = "ACCEPTED"
    /\ recs[2].status = "OPEN"
    /\ recs[2].code = recs[1].code
    /\ recs[2].portfolio = recs[1].portfolio

(* C37: with AI configured, governance required and no manual override,   *)
(* every ACCEPTED recommendation has ai_action ENTER and an ai_score that  *)
(* is present and >= AI_MIN_SCORE, in every reachable state                *)
C37_AcceptedImpliesApproved ==
    GateOn(cfg) =>
        \A i \in DOMAIN recs :
            recs[i].status = "ACCEPTED" =>
                /\ recs[i].ai_action = "ENTER"
                /\ recs[i].ai_score # NULL
                /\ recs[i].ai_score[1] >= AI_MIN_SCORE

(* C38: a batch AI evaluation changes only OPEN rows of the user's default *)
(* portfolio: the newest ones, as many as it reports and never more than   *)
(* max(1, AI_MAX_EVAL_PER_CLICK); and no AI evaluation, batch or single,   *)
(* changes a row's status, code, severity or decision note, or adds or     *)
(* removes a row                                                           *)
OpenOwn == {i \in DOMAIN recs : recs[i].portfolio = portfolio.id /\ recs[i].status = "OPEN"}

(* the n newest of them *)
Newest(n) == {i \in OpenOwn : Cardinality({j \in OpenOwn : j > i}) < n}

C38_EvaluationScope ==
    [][ /\ last'.op \in BatchOps =>
              /\ last'.created <= Max2(1, AI_MAX_EVAL_PER_CLICK)
              /\ last'.created <= Cardinality(OpenOwn)
              /\ \A i \in DOMAIN recs :
                    IF i \in Newest(last'.created)
                      THEN recs'[i].ai_evaluated_at # NULL
                      ELSE recs'[i] = recs[i]
        /\ last'.op \in EvalOps =>
              /\ Len(recs') = Len(recs)
              /\ \A i \in DOMAIN recs :
                    /\ recs'[i].status = recs[i].status
                    /\ recs'[i].code = recs[i].code
                    /\ recs'[i].severity = recs[i].severity
                    /\ recs'[i].decision_note = recs[i].decision_note
                    /\ recs'[i].portfolio = recs[i].portfolio ]_vars

(* six OPEN rows of the user and a newer OPEN row of another portfolio:    *)
(* the batch evaluated the user's five newest and left the oldest alone    *)
C38_Witness ==
    /\ last.op = "ai_eval"
    /\ last.created = AI_MAX_EVAL_PER_CLICK
    /\ Len(recs) = 7
    /\ recs[7] = OtherRow
    /\ \A i \in 1 .. 6 : recs[i].status = "OPEN"
    /\ recs[1].ai_evaluated_at = NULL
    /\ \A i \in 2 .. 6 : recs[i].ai_score = Some(AI_MIN_SCORE)

(* C39: on a simulation that starts with cash >= 0, whatever BUY, SELL and *)
(* advance requests are served one after the other, virtual cash is never  *)
(* negative, no position has a negative quantity, and current_day never    *)
(* decreases                                                               *)
C39_SimulatorNonNegative ==
    /\ [](/\ sim.virtual_cash >= 0
          /\ \A sym \in DOMAIN positions : positions[sym].quantity >= 0)
    /\ [][sim'.current_day >= sim.current_day]_vars

(* the cash, brought to 1.00 by the rounding of two trades at 0.005, was   *)
(* spent to the last cent by a BUY on day 365                              *)
C39_Witness ==
    /\ sim.virtual_cash = 0
    /\ sim.current_day = 365
    /\ last.op = "trade"
    /\ last.result = "success"
    /\ Len(trades) = 3
    /\ trades[3].side = "BUY"
    /\ trades[3].day = 365
    /\ \E sym \in DOMAIN positions : positions[sym].quantity = 0

(* C40: a trade request that is accepted appends exactly one ticket, which *)
(* carries the symbol and the quantity by which the position moved, the    *)
(* side, a price and the simulation day of the request; a rejected trade   *)
(* and an advance append none; the tickets already in the ledger are never *)
(* changed or removed; and each position's quantity is the quantity of its *)
(* BUY tickets minus that of its SELL tickets                              *)
LedgerAgrees ==
    /\ \A i \in DOMAIN trades : trades[i].symbol \in DOMAIN positions
    /\ \A sym \in DOMAIN positions :
          positions[sym].quantity =
              SumOver({i \in DOMAIN trades : trades[i].symbol = sym}, QtyFlow)

====
